---- MODULE Spec2Model ----
(***************************************************************************)
(* Model of the Discord client manager (discord-client-manager.ts), the    *)
(* create_listener / remove_listener / list_listeners tools (index.ts) and *)
(* the response handler registry.                                          *)
(*                                                                         *)
(* The program runs on one event loop.  An action is what one callback or  *)
(* one async function does between two suspension points (an await of      *)
(* client.login, of a remote fetch, of a handler's promise).               *)
(*                                                                         *)
(* Strings are tuples of one-character strings, so that toLowerCase and    *)
(* includes are computed character by character.                           *)
(***************************************************************************)
EXTENDS Integers, Sequences, FiniteSets, TLC

\* ------------------------------------------------------------- bounds
MaxConns == 2            \* Client objects constructed in one run
MaxTime == 3             \* Date.now() runs over 0..MaxTime
MaxCleanupInterval == 2  \* the constructor's cleanupInterval is in 1..this
MaxListeners == 2        \* listeners created in one run (uuidv4 values)
MaxEvents == 2           \* messages the platform emits in one run
NumTasks == 2            \* tool / manager calls in flight at once

Tokens == {"A", "B"}
Tasks == 1..NumTasks
Conns == 1..MaxConns
None == <<"none">>       \* undefined / null

\* ------------------------------------------------------------- strings
Chars == {"h", "H", "i", "I", "o", "O", "x", "1", "2", "3", "6", "7", "8", "9",
          "#"}

\* String.prototype.toLowerCase, one character
LowerChar(ch) ==
    CASE ch = "H" -> "h"
      [] ch = "I" -> "i"
      [] ch = "O" -> "o"
      [] OTHER -> ch

\* String.prototype.toLowerCase
toLowerCase(s) == [i \in 1..Len(s) |-> LowerChar(s[i])]

\* String.prototype.includes
includes(s, sub) ==
    \E i \in 0..(Len(s) - Len(sub)) :
        \A j \in 1..Len(sub) : s[i + j] = sub[j]

\* ------------------------------------------------------------- state
VARIABLES
    clients,          \* Map<string, ClientInfo>: entries in insertion order,
                      \*   [token, client]; client identifies the ClientInfo
    clientInfos,      \* the ClientInfo objects, by their client:
                      \*   [listeners, lastUsed]; NoInfo when there is none
                      \*   or nothing refers to it any more
    conn,             \* the discord.js Client objects: [token, state,
                      \*   callbacks, destroys]
    cleanupInterval,  \* this.cleanupInterval
    now,              \* Date.now()
    handlers,         \* responseHandlerRegistry.handlers, in insertion order
    tasks,            \* async calls in flight, by slot
    nextListener,     \* listeners created so far (fresh uuidv4 values)
    events,           \* messages emitted by the platform so far
    dispatch,         \* messageCreate callbacks started, by <<client, event>>
    invoked,          \* handler.handle calls so far, <<event, listener id>>
    last              \* the operation just performed and what it returned

vars == <<clients, clientInfos, conn, cleanupInterval, now, handlers, tasks,
          nextListener, events, dispatch, invoked, last>>

\* ------------------------------------------------------------- the Map
\* Map.prototype.has on this.clients
Has(m, token) == \E i \in 1..Len(m) : m[i].token = token

\* Map.prototype.get on this.clients: the ClientInfo's client, or 0 for
\* undefined
Get(m, token) ==
    IF Has(m, token)
    THEN LET i == CHOOSE i \in 1..Len(m) : m[i].token = token IN m[i].client
    ELSE 0

\* Map.prototype.set: replaces the value in place, or appends a new entry
Set(m, token, client) ==
    IF Has(m, token)
    THEN [i \in 1..Len(m) |->
            IF m[i].token = token THEN [token |-> token, client |-> client]
            ELSE m[i]]
    ELSE Append(m, [token |-> token, client |-> client])

\* a free slot; a running call keeps its arguments (args), the ListenerOptions
\* it will store (opts), the Client it constructed (client), the clients of the
\* same token that were still logging in when it began (pending), and, once
\* settled, its result (ret).  A resolver call also keeps the guild its
\* findChannel has resolved (guild) and the failed attempts that the
\* findGuild and the findChannel now running have made (g, ch), a call that
\* failed the class of the error that reached its caller (kind)
IdleTask == [op |-> "idle", pc |-> "idle", token |-> "", client |-> 0,
             args |-> None, opts |-> None, ret |-> None, pending |-> {},
             guild |-> None, g |-> 0, ch |-> 0, kind |-> ""]

\* the tools of the server that the model runs
ToolOps == {"create_listener", "send_message", "read_messages"}

\* config.discordToken: the environment sets no DISCORD_TOKEN
discordToken == ""

\* the token a tool works with: its argument, else config.discordToken
TokenOr(token) == IF token # "" THEN token ELSE discordToken

\* a catch clause that throws again what it caught
ReachesAsThrown(op, kind) == kind

\* the class of the error that reaches the caller of op when its body throws
\* an error of class kind: the execute of every tool catches whatever its
\* body throws and throws a UserError made of its message; the methods of
\* the manager called on their own let it through
Reaches(op, kind) == IF op \in ToolOps THEN "UserError" ELSE kind

\* call frame task ends by throwing an error of class kind with message why
Throw(task, kind, why) ==
    [task EXCEPT !.pc = "failed", !.ret = why,
                 !.kind = Reaches(task.op, kind)]

\* `last` after an operation whose effect is all in the other variables
Quiet == [op |-> "-", arg |-> None, ret |-> None]

NoConn == [token |-> "", state |-> "none", callbacks |-> 0, destroys |-> 0]

\* no ClientInfo (not built yet, or garbage)
NoInfo == [listeners |-> <<>>, lastUsed |-> 0]

\* the clients of this.clients.values()
Values(m) == {m[i].client : i \in 1..Len(m)}

\* The ClientInfo objects something still refers to: the values of the Map
\* cl and the ones a suspended messageCreate callback of dsp iterates over
Collect(infos, cl, dsp) ==
    [c \in DOMAIN infos |->
        IF \/ c \in Values(cl)
           \/ \E k \in DOMAIN dsp : dsp[k].pc = "handler" /\ dsp[k].info = c
        THEN infos[c] ELSE NoInfo]

\* clients constructed so far
Constructed == {c \in Conns : conn[c].state # "none"}

\* the client the next new Client(...) yields
NewConn == Cardinality(Constructed) + 1

\* Client.destroy() forgotten
LeaveOpen(cn, c) == cn

\* Client.destroy()
Destroy(cn, c) ==
    [cn EXCEPT ![c].state = "destroyed", ![c].destroys = @ + 1]

\* ------------------------------------------------------------- handlers
\* a ResponseHandler: its id and its name, which tells two handlers with the
\* same id apart (description and handle are not modelled)
Handler(id, name) == [id |-> id, name |-> name]

\* ackHandler
ackHandler == Handler("ack", "Acknowledgment")

\* echoHandler
echoHandler == Handler("echo", "Echo")

\* a handler registered after startup
lateHandler == Handler("late", "v1")

\* undefined
NoHandler == Handler("", "")

\* the handlers registered when the registry module is loaded
StartupHandlers == <<ackHandler, echoHandler>>

\* their ids
RegisteredAtStartup == {StartupHandlers[i].id : i \in 1..Len(StartupHandlers)}

\* Map.prototype.get on a map of handlers: the value of key id, or undefined
MapGet(m, id) ==
    IF \E i \in 1..Len(m) : m[i].id = id
    THEN m[CHOOSE i \in 1..Len(m) : m[i].id = id]
    ELSE NoHandler

\* Map.prototype.set keeping the value a key already has
MapSetUnlessPresent(m, handler) ==
    IF \E i \in 1..Len(m) : m[i].id = handler.id THEN m
    ELSE Append(m, handler)

\* Map.prototype.set on a map of handlers, keyed by handler.id: the value of
\* an existing key is replaced where it is, a new key is appended
MapSet(m, handler) ==
    IF \E i \in 1..Len(m) : m[i].id = handler.id
    THEN [i \in 1..Len(m) |-> IF m[i].id = handler.id THEN handler ELSE m[i]]
    ELSE Append(m, handler)

\* the ids that have a handler in the registry
HandlerIds == {handlers[i].id : i \in 1..Len(handlers)}

\* getHandler answering from the registrations made at startup only
getHandlerOfStartup(id) == MapGet(StartupHandlers, id)

\* ResponseHandlerRegistry.getHandler(id): the handler, or undefined
getHandler(id) == MapGet(handlers, id)

\* ResponseHandlerRegistry.listHandlers()
listHandlers == handlers

\* ------------------------------------------------------------- construction
\* new DiscordClientManager(options), and the registry after index.ts ran
Init ==
    /\ clients = <<>>
    /\ clientInfos = [c \in Conns |-> NoInfo]
    /\ conn = [c \in Conns |-> NoConn]
    /\ cleanupInterval \in 1..MaxCleanupInterval
    /\ now = 0
    /\ handlers = StartupHandlers
    /\ tasks = [t \in Tasks |-> IdleTask]
    /\ nextListener = 0
    /\ events = <<>>
    /\ dispatch = <<>>
    /\ invoked = [p \in (1..MaxEvents) \X (1..MaxListeners) |-> 0]
    /\ last = [op |-> "init", arg |-> None, ret |-> None]

\* the manager constructed with the longest cleanupInterval, for the
\* specifications in which no time passes
InitLongest == Init /\ cleanupInterval = MaxCleanupInterval

\* ------------------------------------------------------------- diagnostics
\* the characters of the credentials: the tokens "A" and "B" of the model
\* stand for these strings
TokenText(token) ==
    IF token = "A" THEN <<"M", "T", "k", "4", ".", "a", "B", "c">>
    ELSE <<"N", "z", "Q", "5", ".", "x", "Y", "z">>

\* String.prototype.slice(-5), as the sweep logs a token
sliceLast5(s) == SubSeq(s, IF Len(s) > 5 THEN Len(s) - 4 ELSE 1, Len(s))

\* the messages of the errors client.login(token) rejects with: of the
\* library for a token the platform refuses, of the network
LoginErrors ==
    {<<"A", "n", " ", "i", "n", "v", "a", "l", "i", "d", " ", "t", "o", "k",
       "e", "n", " ", "w", "a", "s", " ", "p", "r", "o", "v", "i", "d", "e",
       "d", ".">>,
     <<"E", "C", "O", "N", "N", "R", "E", "S", "E", "T">>}

\* 'Failed to login with the provided Discord token: '
LoginFailurePrefix ==
    <<"F", "a", "i", "l", "e", "d", " ", "t", "o", " ", "l", "o", "g", "i",
      "n", " ", "w", "i", "t", "h", " ", "t", "h", "e", " ", "p", "r", "o",
      "v", "i", "d", "e", "d", " ", "D", "i", "s", "c", "o", "r", "d", " ",
      "t", "o", "k", "e", "n", ":", " ">>

\* the message naming the token by its last characters
LoginFailureNamingToken(token, message) ==
    LoginFailurePrefix \o <<".", ".", ".">> \o sliceLast5(TokenText(token))
        \o <<":", " ">> \o message

\* the message of the Error getClient(token) throws when login rejected
\* with an error of this message: the token is not part of it
LoginFailure(token, message) == LoginFailurePrefix \o message

\* 'Failed to create listener: ', 'Failed to send message: ',
\* 'Failed to read messages: '
ToolFailurePrefix(op) ==
    CASE op = "create_listener" ->
          <<"F", "a", "i", "l", "e", "d", " ", "t", "o", " ", "c", "r", "e",
            "a", "t", "e", " ", "l", "i", "s", "t", "e", "n", "e", "r", ":",
            " ">>
      [] op = "send_message" ->
          <<"F", "a", "i", "l", "e", "d", " ", "t", "o", " ", "s", "e", "n",
            "d", " ", "m", "e", "s", "s", "a", "g", "e", ":", " ">>
      [] op = "read_messages" ->
          <<"F", "a", "i", "l", "e", "d", " ", "t", "o", " ", "r", "e", "a",
            "d", " ", "m", "e", "s", "s", "a", "g", "e", "s", ":", " ">>
      [] OTHER -> <<>>

\* the message of the error that reaches the caller of op when the login of
\* its getClient(token) rejected
LoginDiagnostic(op, token, message) ==
    ToolFailurePrefix(op) \o LoginFailure(token, message)

\* ------------------------------------------------------------- getClient
\* clients of `token` whose login() has not settled yet
LoggingIn(token) ==
    {c \in Conns : conn[c].token = token /\ conn[c].state = "connecting"}

\* new Client(this.clientOptions), on which login(token) is then awaited
Construct(cn, token) ==
    [cn EXCEPT ![NewConn] = [token |-> token, state |-> "connecting",
                             callbacks |-> 0, destroys |-> 0]]

\* existingClientInfo.lastUsed = Date.now()
Touch(infos, c) == [infos EXCEPT ![c].lastUsed = now]

\* setupMessageHandler: client.on('messageCreate', ...) on a logged-in client
setupMessageHandler(cn, c) ==
    [cn EXCEPT ![c].state = "ready", ![c].callbacks = @ + 1]

\* getClient after login() resolved: the new ClientInfo
NewClientInfo == [listeners |-> <<>>, lastUsed |-> now]

Settled(t, pc, ret) == [tasks[t] EXCEPT !.pc = pc, !.ret = ret]

\* getClient(token), up to its return or to the await of client.login
GetClientCall(t, token) ==
    /\ tasks[t].op = "idle"
    /\ IF Has(clients, token)
       THEN /\ clientInfos' = Touch(clientInfos, Get(clients, token))
            /\ tasks' = [tasks EXCEPT ![t] =
                  [IdleTask EXCEPT !.op = "getClient", !.pc = "done",
                                   !.token = token,
                                   !.ret = Get(clients, token)]]
            /\ UNCHANGED conn
       ELSE /\ NewConn <= MaxConns
            /\ conn' = Construct(conn, token)
            /\ tasks' = [tasks EXCEPT ![t] =
                  [IdleTask EXCEPT !.op = "getClient", !.pc = "login",
                                   !.token = token, !.client = NewConn,
                                   !.pending = LoggingIn(token)]]
            /\ UNCHANGED clientInfos
    /\ last' = Quiet
    /\ UNCHANGED <<clients, cleanupInterval, now, handlers, nextListener,
                   events, dispatch, invoked>>

\* getClient resumes after client.login(token) resolved
GetClientLoginResolve(t) ==
    /\ tasks[t].op = "getClient" /\ tasks[t].pc = "login"
    /\ LET c == tasks[t].client
           token == tasks[t].token
       IN /\ clientInfos' = Collect([clientInfos EXCEPT ![c] = NewClientInfo],
                                     Set(clients, token, c), dispatch)
          /\ clients' = Set(clients, token, c)
          /\ conn' = setupMessageHandler(conn, c)
          /\ tasks' = [tasks EXCEPT ![t] = Settled(t, "done", c)]
    /\ last' = Quiet
    /\ UNCHANGED <<cleanupInterval, now, handlers, nextListener, events,
                   dispatch, invoked>>

\* client.login(token) rejected, in getClient called from anywhere:
\* client.destroy() and the error propagates to the caller
LoginReject(t) ==
    /\ tasks[t].pc \in {"login", "addLogin"}
    /\ conn' = Destroy(conn, tasks[t].client)
    /\ tasks' = [tasks EXCEPT ![t] = Throw(tasks[t], "Error", <<"login">>)]
    /\ last' = Quiet
    /\ UNCHANGED <<clients, clientInfos, cleanupInterval, now, handlers,
                   nextListener, events, dispatch, invoked>>

\* the caller has taken the call's result or error
Return(t) ==
    /\ tasks[t].pc \in {"done", "failed"}
    /\ tasks' = [tasks EXCEPT ![t] = IdleTask]
    /\ last' = Quiet
    /\ UNCHANGED <<clients, clientInfos, conn, cleanupInterval, now, handlers,
                   nextListener, events, dispatch, invoked>>

\* ------------------------------------------------------------- the timer
\* time passes
Tick ==
    /\ now < MaxTime
    /\ now' = now + 1
    /\ last' = Quiet
    /\ UNCHANGED <<clients, clientInfos, conn, cleanupInterval, handlers,
                   tasks, nextListener, events, dispatch, invoked>>

\* Inactive with the comparison off by one
InactiveAtThreshold(e) ==
    now - clientInfos[e.client].lastUsed >= cleanupInterval

\* the test of cleanupInactiveClients on one entry
Inactive(e) == now - clientInfos[e.client].lastUsed > cleanupInterval

\* the clients of the entries of m that the loop finds inactive
InactiveClients(m) ==
    {m[i].client : i \in {j \in 1..Len(m) : Inactive(m[j])}}

\* the delete of the sweep forgotten
KeepEvery(e) == TRUE

\* the entries clients.delete(token) of the sweep leaves in the Map
Keep(e) == ~Inactive(e)

\* client.destroy() on the client of the first entry only
DestroyFirstOnly(cn, cs) ==
    [c \in Conns |->
        IF c \in cs /\ \A d \in cs : c <= d THEN Destroy(cn, c)[c] ELSE cn[c]]

\* client.destroy() on every client in cs
DestroyEach(cn, cs) ==
    [c \in Conns |-> IF c \in cs THEN Destroy(cn, c)[c] ELSE cn[c]]

\* cleanupInactiveClients(), run by setInterval: deleting from a Map while
\* iterating over it visits every entry
cleanupInactiveClients ==
    /\ conn' = DestroyEach(conn, InactiveClients(clients))
    /\ clients' = SelectSeq(clients, Keep)
    /\ clientInfos' = Collect(clientInfos, SelectSeq(clients, Keep), dispatch)
    /\ last' = [op |-> "cleanup", arg |-> None,
                ret |-> InactiveClients(clients)]
    /\ UNCHANGED <<cleanupInterval, now, handlers, tasks,
                   nextListener, events, dispatch, invoked>>

\* destroyAll(): deleting from a Map while iterating over it visits every
\* entry
destroyAll ==
    /\ conn' = DestroyEach(conn, Values(clients))
    /\ clients' = <<>>
    /\ clientInfos' = Collect(clientInfos, <<>>, dispatch)
    /\ last' = [op |-> "destroyAll", arg |-> None, ret |-> Values(clients)]
    /\ UNCHANGED <<cleanupInterval, now, handlers, tasks,
                   nextListener, events, dispatch, invoked>>

\* ------------------------------------------------------------- listeners
\* the MessageListener addListener builds (createdAt is not modelled)
MessageListener(id, options) == [id |-> id, options |-> options, active |-> TRUE]

\* clientInfo.listeners.set(id, listener), the id being fresh
SetListener(infos, c, listener) ==
    [infos EXCEPT ![c].listeners = Append(@, listener)]

\* addListener(token, options) run by task t, on behalf of the call op with
\* arguments args, from the pool state (cl, infos, cn) the same step has
\* reached: getClient(token) finds the session, and the listener is stored,
\* or constructs a client and awaits its login
addListener(t, op, args, token, options, cl, infos, cn) ==
    /\ last' = Quiet
    /\ IF Has(cl, token)
       THEN
         LET c == Get(cl, token)
             id == nextListener + 1
         IN /\ nextListener < MaxListeners
            /\ nextListener' = id
            /\ clients' = cl
            /\ conn' = cn
            /\ clientInfos' =
                 Collect(SetListener(Touch(infos, c), c,
                                     MessageListener(id, options)),
                         cl, dispatch)
            /\ tasks' = [tasks EXCEPT ![t] =
                 [IdleTask EXCEPT !.op = op, !.args = args, !.token = token,
                                  !.opts = options, !.pc = "done",
                                  !.ret = id]]
       ELSE
         /\ NewConn <= MaxConns
         /\ conn' = Construct(cn, token)
         /\ clients' = cl
         /\ clientInfos' = infos
         /\ tasks' = [tasks EXCEPT ![t] =
              [IdleTask EXCEPT !.op = op, !.args = args, !.token = token,
                               !.opts = options, !.pc = "addLogin",
                               !.client = NewConn,
                               !.pending = LoggingIn(token)]]
         /\ UNCHANGED nextListener

\* discordClientManager.addListener(token, options) called directly
AddListenerCall(t, token, options) ==
    /\ tasks[t].op = "idle"
    /\ addListener(t, "addListener", None, token, options, clients,
                   clientInfos, conn)
    /\ UNCHANGED <<cleanupInterval, now, handlers, events, dispatch, invoked>>

\* addListener resumes after the login of the client it constructed resolved:
\* getClient stores the session and returns, the listener is stored
AddListenerLoginResolve(t) ==
    /\ tasks[t].pc = "addLogin"
    /\ LET c == tasks[t].client
           token == tasks[t].token
       IN addListener(t, tasks[t].op, tasks[t].args, token, tasks[t].opts,
                      Set(clients, token, c),
                      [clientInfos EXCEPT ![c] = NewClientInfo],
                      setupMessageHandler(conn, c))
    /\ UNCHANGED <<cleanupInterval, now, handlers, events, dispatch, invoked>>

\* the listener ids of one ClientInfo
ListenerIds(info) == {info.listeners[i].id : i \in 1..Len(info.listeners)}

\* the first entry of this.clients whose listeners has listenerId, or 0
Owner(listenerId) ==
    LET own == {i \in 1..Len(clients) :
                  listenerId \in ListenerIds(clientInfos[clients[i].client])}
    IN IF own = {} THEN 0 ELSE CHOOSE i \in own : \A j \in own : i <= j

\* the delete forgotten
KeepListener(ls, listenerId) == ls

\* the delete taking the entries set before the listener along with it
DeleteUpTo(ls, listenerId) ==
    LET Later(l) == l.id > listenerId IN SelectSeq(ls, Later)

\* Map.prototype.delete on a listeners map
DeleteListener(ls, listenerId) ==
    LET Other(l) == l.id # listenerId IN SelectSeq(ls, Other)

\* removeListener(listenerId)
removeListener(listenerId) ==
    /\ IF Owner(listenerId) # 0
       THEN LET c == clients[Owner(listenerId)].client
            IN /\ clientInfos' = [clientInfos EXCEPT ![c].listeners =
                                    DeleteListener(@, listenerId)]
               /\ last' = [op |-> "removeListener", arg |-> listenerId,
                           ret |-> TRUE]
       ELSE /\ UNCHANGED clientInfos
            /\ last' = [op |-> "removeListener", arg |-> listenerId,
                        ret |-> FALSE]
    /\ UNCHANGED <<clients, conn, cleanupInterval, now, handlers, tasks,
                   nextListener, events, dispatch, invoked>>

\* formatListenerInfo(listener): the fields of ListenerInfo (createdAt and
\* description are not modelled)
formatListenerInfo(listener) ==
    [id |-> listener.id,
     serverId |-> listener.options.serverId,
     channelId |-> listener.options.channelId,
     keywords |-> listener.options.keywords,
     handlerId |-> listener.options.handlerId,
     active |-> listener.active]

\* the loop over a listeners map stopping after its first listener
FormatFirst(ls) ==
    [i \in 1..(IF Len(ls) > 0 THEN 1 ELSE 0) |-> formatListenerInfo(ls[i])]

\* formatListenerInfo over one listeners map, in its order
FormatAll(ls) == [i \in 1..Len(ls) |-> formatListenerInfo(ls[i])]

RECURSIVE AllListeners(_)
\* the listeners of every entry of m, in the order of m
AllListeners(m) ==
    IF m = <<>> THEN <<>>
    ELSE FormatAll(clientInfos[Head(m).client].listeners) \o AllListeners(Tail(m))

\* getListeners(token): token is "" (falsy) for "all tokens"
getListeners(token) ==
    /\ last' = [op |-> "getListeners", arg |-> token,
                ret |-> IF token # ""
                        THEN IF Has(clients, token)
                             THEN FormatAll(
                                    clientInfos[Get(clients, token)].listeners)
                             ELSE <<>>
                        ELSE AllListeners(clients)]
    /\ UNCHANGED <<clients, clientInfos, conn, cleanupInterval, now, handlers,
                   tasks, nextListener, events, dispatch, invoked>>

\* ------------------------------------------------------------- registry
\* ResponseHandlerRegistry.register(handler)
register(handler) ==
    /\ handlers' = MapSet(handlers, handler)
    /\ last' = [op |-> "register", arg |-> handler, ret |-> None]
    /\ UNCHANGED <<clients, clientInfos, conn, cleanupInterval, now, tasks,
                   nextListener, events, dispatch, invoked>>

\* a call of ResponseHandlerRegistry.getHandler(id) on its own
GetHandlerCall(id) ==
    /\ last' = [op |-> "getHandler", arg |-> id, ret |-> getHandler(id)]
    /\ UNCHANGED <<clients, clientInfos, conn, cleanupInterval, now, handlers,
                   tasks, nextListener, events, dispatch, invoked>>

\* a call of ResponseHandlerRegistry.listHandlers()
ListHandlersCall ==
    /\ last' = [op |-> "listHandlers", arg |-> None, ret |-> listHandlers]
    /\ UNCHANGED <<clients, clientInfos, conn, cleanupInterval, now, handlers,
                   tasks, nextListener, events, dispatch, invoked>>

\* ------------------------------------------------------------- dispatch
\* a message: author is "user", "otherbot" or the token whose bot wrote it;
\* guild is None for a direct message
Message(author, guild, channel, content) ==
    [author |-> author, guild |-> guild, channel |-> channel,
     content |-> content]

\* AuthorIsBot with the test dropped
AuthorNeverBot(message) == FALSE

\* message.author.bot: every identity logged in with a bot token is a bot
AuthorIsBot(message) == message.author # "user"

\* JavaScript truthiness of an optional string
Truthy(s) == s # None /\ s # <<>>

\* the server constraint of the messageCreate callback lets the message pass
ServerOk(listener, message) ==
    ~(Truthy(listener.options.serverId)
        /\ message.guild # listener.options.serverId)

\* ChannelOk with the constraint dropped
ChannelAlwaysOk(listener, message) == TRUE

\* the channel constraint of the messageCreate callback lets the message pass
ChannelOk(listener, message) ==
    ~(Truthy(listener.options.channelId)
        /\ message.channel # listener.options.channelId)

\* containsKeyword without keyword.toLowerCase()
containsKeywordAsWritten(listener, message) ==
    \E k \in 1..Len(listener.options.keywords) :
        includes(toLowerCase(message.content), listener.options.keywords[k])

\* listener.options.keywords.some(keyword =>
\*   message.content.toLowerCase().includes(keyword.toLowerCase()))
containsKeyword(listener, message) ==
    \E k \in 1..Len(listener.options.keywords) :
        includes(toLowerCase(message.content),
                 toLowerCase(listener.options.keywords[k]))

\* Passes without the keyword test
PassesWithoutKeyword(listener, message) ==
    /\ listener.active
    /\ ServerOk(listener, message)
    /\ ChannelOk(listener, message)

\* the loop body reaches the handler lookup for this listener
Passes(listener, message) ==
    /\ listener.active
    /\ ServerOk(listener, message)
    /\ ChannelOk(listener, message)
    /\ containsKeyword(listener, message)

\* the listeners of ClientInfo `info` the iterator has still to visit after
\* the one with id `pos`, for which handler.handle is called (a listener
\* whose handler is not registered is logged and skipped)
Hits(info, pos, message) ==
    {i \in 1..Len(clientInfos[info].listeners) :
        LET l == clientInfos[info].listeners[i]
        IN l.id > pos /\ Passes(l, message)
              /\ getHandler(l.options.handlerId) # NoHandler}

\* a callback that has returned
Finished == [info |-> 0, pos |-> 0, pc |-> "done"]

\* the for loop of the callback from after listener `pos` up to its next
\* await of handler.handle, or to its end
RunLoop(c, e, info, pos) ==
    LET hits == Hits(info, pos, events[e].message)
    IN IF hits = {}
       THEN /\ dispatch' = (<<c, e>> :> Finished) @@ dispatch
            /\ clientInfos' =
                 Collect(clientInfos, clients, (<<c, e>> :> Finished) @@ dispatch)
            /\ UNCHANGED invoked
       ELSE LET i == CHOOSE i \in hits : \A j \in hits : i <= j
                l == clientInfos[info].listeners[i]
            IN /\ dispatch' = (<<c, e>> :> [info |-> info, pos |-> l.id,
                                            pc |-> "handler"]) @@ dispatch
               /\ invoked' = [invoked EXCEPT ![<<e, l.id>>] = @ + 1]
               /\ UNCHANGED clientInfos

\* the platform emits a message; the gateway will deliver it to the clients
\* that are logged in now
NewEvent(message) ==
    /\ Len(events) < MaxEvents
    /\ events' = Append(events,
          [message |-> message,
           to |-> {c \in Conns : conn[c].state = "ready"}])
    /\ last' = Quiet
    /\ UNCHANGED <<clients, clientInfos, conn, cleanupInterval, now, handlers,
                   tasks, nextListener, dispatch, invoked>>

\* client c emits 'messageCreate' for event e, after it has emitted it for
\* the events that the gateway delivered to it before: the callback that
\* setupMessageHandler attached runs up to its first await or to its end
messageCreate(c, e) ==
    /\ e \in 1..Len(events)
    /\ c \in events[e].to
    /\ conn[c].state = "ready"
    /\ <<c, e>> \notin DOMAIN dispatch
    /\ \A e2 \in 1..(e - 1) :
          c \in events[e2].to => <<c, e2>> \in DOMAIN dispatch
    /\ IF AuthorIsBot(events[e].message) \/ ~Has(clients, conn[c].token)
       THEN /\ dispatch' = (<<c, e>> :> Finished) @@ dispatch
            /\ UNCHANGED <<invoked, clientInfos>>
       ELSE RunLoop(c, e, Get(clients, conn[c].token), 0)
    /\ last' = [op |-> "messageCreate", arg |-> <<c, e>>, ret |-> None]
    /\ UNCHANGED <<clients, conn, cleanupInterval, now, handlers, tasks,
                   nextListener, events>>

\* the await of handler.handle outside any try: a rejection ends the
\* callback
AfterHandlerUncaught(c, e, info, pos, ok) ==
    IF ok THEN RunLoop(c, e, info, pos)
    ELSE /\ dispatch' = (<<c, e>> :> Finished) @@ dispatch
         /\ clientInfos' =
              Collect(clientInfos, clients, (<<c, e>> :> Finished) @@ dispatch)
         /\ UNCHANGED invoked

\* the callback of c for e after the promise of handler.handle, awaited for
\* listener pos, resolved (ok) or rejected: try { await ... } catch logs the
\* rejection, and the loop goes on with the next listener
AfterHandler(c, e, info, pos, ok) == RunLoop(c, e, info, pos)

\* the promise of handler.handle settles, resolved or rejected
HandlerSettle(c, e) ==
    /\ <<c, e>> \in DOMAIN dispatch
    /\ dispatch[<<c, e>>].pc = "handler"
    /\ \E ok \in BOOLEAN :
          AfterHandler(c, e, dispatch[<<c, e>>].info, dispatch[<<c, e>>].pos,
                       ok)
    /\ last' = Quiet
    /\ UNCHANGED <<clients, conn, cleanupInterval, now, handlers, tasks,
                   nextListener, events>>

\* the promise of handler.handle settles, the outcome being recorded:
\* resolved (ok) or rejected
HandlerOutcome(c, e, ok) ==
    /\ <<c, e>> \in DOMAIN dispatch
    /\ dispatch[<<c, e>>].pc = "handler"
    /\ AfterHandler(c, e, dispatch[<<c, e>>].info, dispatch[<<c, e>>].pos, ok)
    /\ last' = [op |-> "handlerSettled", arg |-> <<c, e>>, ret |-> ok]
    /\ UNCHANGED <<clients, conn, cleanupInterval, now, handlers, tasks,
                   nextListener, events>>

\* ------------------------------------------------------------- the pool
\* the listener options the pool specification uses
PoolOptions ==
    [serverId |-> None, channelId |-> None, keywords |-> << <<"h", "i">> >>,
     handlerId |-> "ack"]

\* Sessions of two credentials under every interleaving of calls, logins,
\* sweeps and shutdowns
Next ==
    \/ \E t \in Tasks, token \in Tokens : GetClientCall(t, token)
    \/ \E t \in Tasks : GetClientLoginResolve(t)
    \/ \E t \in Tasks : LoginReject(t)
    \/ \E t \in Tasks : Return(t)
    \/ \E t \in Tasks, token \in Tokens : AddListenerCall(t, token, PoolOptions)
    \/ \E t \in Tasks : AddListenerLoginResolve(t)
    \/ \E token \in Tokens \cup {""} : getListeners(token)
    \/ Tick
    \/ cleanupInactiveClients
    \/ destroyAll

Spec == Init /\ [][Next]_vars

\* ------------------------------------------------------------- resolvers
\* client.guilds.cache: the servers the bot is in
Guilds ==
    {[id |-> <<"1">>, name |-> <<"H", "i">>],
     [id |-> <<"2">>, name |-> <<"o">>]}

\* the channels of those servers; text is "instanceof TextChannel"
Channels ==
    {[id |-> <<"7">>, name |-> <<"h", "o">>, guild |-> <<"1">>, text |-> TRUE],
     [id |-> <<"8">>, name |-> <<"h", "o">>, guild |-> <<"2">>, text |-> TRUE],
     [id |-> <<"9">>, name |-> <<"x">>, guild |-> <<"1">>, text |-> FALSE]}

\* client.guilds.cache of the client of a credential: the bot of "E" is in no
\* server, the bot of "S" in one, the bot of "D" in three of which two have
\* one name up to letter case; every other bot is in Guilds
GuildsOf(token) ==
    CASE token = "E" -> {}
      [] token = "S" -> {[id |-> <<"1">>, name |-> <<"H", "i">>]}
      [] token = "D" -> Guilds \cup {[id |-> <<"3">>, name |-> <<"h", "I">>]}
      [] OTHER -> Guilds

\* the channels of those servers: the server of "S" has a second text
\* channel named "ho" up to letter case, the first server of "N" a text
\* channel whose name is the id of its voice channel
ChannelsOf(token) ==
    CASE token = "E" -> {}
      [] token = "N" ->
           Channels \cup {[id |-> <<"5">>, name |-> <<"9">>,
                           guild |-> <<"1">>, text |-> TRUE]}
      [] token = "S" ->
           {ch \in Channels : ch.guild = <<"1">>}
             \cup {[id |-> <<"6">>, name |-> <<"H", "o">>,
                    guild |-> <<"1">>, text |-> TRUE]}
      [] OTHER -> Channels

\* what a resolver returns (the id of the resource) or throws (the kind of
\* the error and the ids of the resources its message lists as matching)
Found(id) == [ok |-> TRUE, id |-> id]
Thrown(why) == [ok |-> FALSE, id |-> <<why>>, listed |-> {}]

\* OneOf without the size > 1 test: first() of whatever matched
FirstOf(ids, none, several) ==
    IF ids = {} THEN Thrown(none)
    ELSE Found(CHOOSE id \in ids : TRUE)

\* the one member of a set, or the error for none / several
OneOf(ids, none, several) ==
    IF ids = {} THEN Thrown(none)
    ELSE IF Cardinality(ids) > 1 THEN [Thrown(several) EXCEPT !.listed = ids]
    ELSE Found(CHOOSE id \in ids : TRUE)

\* One attempt of findGuild(client, guildIdentifier), guilds being
\* client.guilds.cache; fetched says whether client.guilds.fetch answered (it
\* throws for an unknown id and on a remote failure)
findGuild(guilds, guildIdentifier, fetched) ==
    IF ~Truthy(guildIdentifier)
    THEN IF Cardinality(guilds) = 1
         THEN Found((CHOOSE g \in guilds : TRUE).id)
         ELSE Thrown("multiple servers")
    ELSE IF fetched /\ \E g \in guilds : g.id = guildIdentifier
    THEN Found(guildIdentifier)
    ELSE OneOf({g.id : g \in {h \in guilds :
                    toLowerCase(h.name) = toLowerCase(guildIdentifier)}},
               "server not found", "multiple servers found")

\* String.prototype.replace('#', ''): the first '#' is removed
StripHash(str) ==
    IF \E i \in 1..Len(str) : str[i] = "#"
    THEN LET i == CHOOSE i \in 1..Len(str) :
                    str[i] = "#" /\ \A j \in 1..(i - 1) : str[j] # "#"
         IN SubSeq(str, 1, i - 1) \o SubSeq(str, i + 1, Len(str))
    ELSE str

\* the test on a fetched channel without the comparison of the guilds
TextChannelAnywhere(channel, guild) == channel.text

\* channel instanceof TextChannel && channel.guild.id === guild.id
TextChannelOf(channel, guild) == channel.text /\ channel.guild = guild

\* One attempt of findChannel(client, channelIdentifier, guildIdentifier)
\* once its findGuild has returned the guild with id `guild`; channels are
\* the channels the client can fetch, fetched says whether
\* client.channels.fetch answered
findChannel(channels, channelIdentifier, guild, fetched) ==
    IF fetched /\ \E ch \in channels : ch.id = channelIdentifier
    THEN LET channel == CHOOSE ch \in channels : ch.id = channelIdentifier
         IN IF TextChannelOf(channel, guild)
            THEN Found(channel.id)
            ELSE Thrown("not a text channel or not found")
    ELSE OneOf({ch.id : ch \in {h \in channels :
                   /\ h.guild = guild
                   /\ h.text
                   /\ \/ toLowerCase(h.name) = toLowerCase(channelIdentifier)
                      \/ toLowerCase(h.name)
                           = StripHash(toLowerCase(channelIdentifier))}},
               "channel not found", "multiple channels found")

\* config.maxRetries
maxRetries == 3

\* the executor making one attempt more than maxRetries
AttemptsRemainOneMore(made) == made <= maxRetries

\* the executor never retrying
AttemptsRemainNever(made) == FALSE

\* retryWithExponentialBackoff(operation, onRetry, maxRetries, baseDelay):
\* after `made` failed attempts another one follows, after onRetry and a
\* delay, while attempts remain; else the last failure propagates
AttemptsRemain(made) == made < maxRetries

\* ------------------------------------------------------------- create_listener
\* the arguments of the create_listener tool
ToolArgs(server, channel, keywords, handlerId) ==
    [server |-> server, channel |-> channel, keywords |-> keywords,
     handlerId |-> handlerId]

\* ListenerOptions
Options(serverId, channelId, keywords, handlerId) ==
    [serverId |-> serverId, channelId |-> channelId, keywords |-> keywords,
     handlerId |-> handlerId]

\* create_listener once getClient has returned, from the pool state (cl,
\* infos, cn) the step has reached: up to the await of findGuild, or into
\* addListener when no server was given
AfterGetClient(t, token, args, cl, infos, cn) ==
    IF Truthy(args.server)
    THEN /\ tasks' = [tasks EXCEPT ![t] =
              [IdleTask EXCEPT !.op = "create_listener", !.pc = "findGuild",
                               !.token = token, !.args = args]]
         /\ clients' = cl
         /\ clientInfos' = infos
         /\ conn' = cn
         /\ last' = Quiet
         /\ UNCHANGED nextListener
    ELSE addListener(t, "create_listener", args, token,
                     Options(None, None, args.keywords, args.handlerId),
                     cl, infos, cn)

\* the create_listener tool is called with tokenArg, "" for none: the token
\* is settled, the handler is looked up, then getClient(token) returns the
\* pooled client or awaits a login
CreateListenerCall(t, tokenArg, args) ==
    /\ tasks[t].op = "idle"
    /\ LET token == TokenOr(tokenArg)
           frame == [IdleTask EXCEPT !.op = "create_listener",
                                     !.token = token, !.args = args]
       IN IF token = ""
          THEN /\ tasks' = [tasks EXCEPT ![t] =
                              Throw(frame, "UserError", <<"no token">>)]
               /\ last' = Quiet
               /\ UNCHANGED <<clients, clientInfos, conn, nextListener>>
          ELSE IF getHandler(args.handlerId) = NoHandler
          THEN /\ tasks' = [tasks EXCEPT ![t] =
                    Throw(frame, "UserError", <<"handler not found">>)]
               /\ last' = Quiet
               /\ UNCHANGED <<clients, clientInfos, conn, nextListener>>
          ELSE IF Has(clients, token)
          THEN AfterGetClient(t, token, args, clients,
                              Touch(clientInfos, Get(clients, token)), conn)
          ELSE /\ NewConn <= MaxConns
               /\ conn' = Construct(conn, token)
               /\ tasks' = [tasks EXCEPT ![t] =
                    [frame EXCEPT !.pc = "login", !.client = NewConn,
                                  !.pending = LoggingIn(token)]]
               /\ last' = Quiet
               /\ UNCHANGED <<clients, clientInfos, nextListener>>
    /\ UNCHANGED <<cleanupInterval, now, handlers, events, dispatch, invoked>>

\* create_listener resumes after the login awaited by its getClient resolved
CreateListenerLoginResolve(t) ==
    /\ tasks[t].op = "create_listener" /\ tasks[t].pc = "login"
    /\ LET c == tasks[t].client
           token == tasks[t].token
       IN AfterGetClient(t, token, tasks[t].args, Set(clients, token, c),
                         Collect([clientInfos EXCEPT ![c] = NewClientInfo],
                                 Set(clients, token, c), dispatch),
                         setupMessageHandler(conn, c))
    /\ UNCHANGED <<cleanupInterval, now, handlers, events, dispatch, invoked>>

\* the arguments of a call of findGuild or findChannel
ResolverArgs(server, channel) == [server |-> server, channel |-> channel]

\* The send_message or read_messages tool (op) is called with tokenArg, ""
\* for none: the token is settled, then getClient(token) returns the pooled
\* client, and the first attempt of findChannel awaits findGuild, or awaits
\* a login
ChannelToolCall(t, op, tokenArg, args) ==
    /\ tasks[t].op = "idle"
    /\ LET token == TokenOr(tokenArg)
           frame == [IdleTask EXCEPT !.op = op, !.token = token,
                                     !.args = args]
       IN IF token = ""
          THEN /\ tasks' = [tasks EXCEPT ![t] =
                              Throw(frame, "UserError", <<"no token">>)]
               /\ UNCHANGED <<clientInfos, conn>>
          ELSE IF Has(clients, token)
          THEN /\ tasks' = [tasks EXCEPT ![t] =
                    [frame EXCEPT !.pc = "findChannelGuild",
                                  !.client = Get(clients, token)]]
               /\ clientInfos' = Touch(clientInfos, Get(clients, token))
               /\ UNCHANGED conn
          ELSE /\ NewConn <= MaxConns
               /\ conn' = Construct(conn, token)
               /\ tasks' = [tasks EXCEPT ![t] =
                    [frame EXCEPT !.pc = "login", !.client = NewConn,
                                  !.pending = LoggingIn(token)]]
               /\ UNCHANGED clientInfos
    /\ last' = Quiet
    /\ UNCHANGED <<clients, cleanupInterval, now, handlers, nextListener,
                   events, dispatch, invoked>>

\* send_message or read_messages resumes after the login awaited by its
\* getClient resolved: the first attempt of findChannel awaits findGuild
ChannelToolLoginResolve(t) ==
    /\ tasks[t].op \in {"send_message", "read_messages"}
    /\ tasks[t].pc = "login"
    /\ LET c == tasks[t].client
           token == tasks[t].token
       IN /\ clientInfos' = Collect([clientInfos EXCEPT ![c] = NewClientInfo],
                                     Set(clients, token, c), dispatch)
          /\ clients' = Set(clients, token, c)
          /\ conn' = setupMessageHandler(conn, c)
          /\ tasks' = [tasks EXCEPT ![t] =
                         [@ EXCEPT !.pc = "findChannelGuild", !.pending = {}]]
    /\ last' = Quiet
    /\ UNCHANGED <<cleanupInterval, now, handlers, nextListener, events,
                   dispatch, invoked>>

\* channel.send(message) of send_message or channel.messages.fetch of
\* read_messages settles: the tool returns its text, or the rejection is
\* thrown
RemoteSettle(t, ok) ==
    /\ tasks[t].pc = "remote"
    /\ tasks' = [tasks EXCEPT ![t] =
                   IF ok THEN [@ EXCEPT !.pc = "done", !.ret = <<"ok">>]
                   ELSE Throw(@, "Error", <<"remote">>)]
    /\ last' = Quiet
    /\ UNCHANGED <<clients, clientInfos, conn, cleanupInterval, now, handlers,
                   nextListener, events, dispatch, invoked>>

\* findGuild(client, guildIdentifier) is called with the client of the
\* session of token
FindGuildCall(t, token, guildIdentifier) ==
    /\ tasks[t].op = "idle"
    /\ Has(clients, token)
    /\ tasks' = [tasks EXCEPT ![t] =
         [IdleTask EXCEPT !.op = "findGuild", !.pc = "findGuild",
                          !.token = token, !.client = Get(clients, token),
                          !.args = ResolverArgs(guildIdentifier, None)]]
    /\ last' = Quiet
    /\ UNCHANGED <<clients, clientInfos, conn, cleanupInterval, now, handlers,
                   nextListener, events, dispatch, invoked>>

\* findChannel(client, channelIdentifier, guildIdentifier) is called with the
\* client of the session of token: its first attempt awaits findGuild
FindChannelCall(t, token, channelIdentifier, guildIdentifier) ==
    /\ tasks[t].op = "idle"
    /\ Has(clients, token)
    /\ tasks' = [tasks EXCEPT ![t] =
         [IdleTask EXCEPT !.op = "findChannel", !.pc = "findChannelGuild",
                          !.token = token, !.client = Get(clients, token),
                          !.args = ResolverArgs(guildIdentifier,
                                                channelIdentifier)]]
    /\ last' = Quiet
    /\ UNCHANGED <<clients, clientInfos, conn, cleanupInterval, now, handlers,
                   nextListener, events, dispatch, invoked>>

\* the guildIdentifier the findChannel of task t was called with: the
\* resolved serverId in create_listener
GuildIdentifier(t) ==
    IF tasks[t].op = "create_listener" THEN tasks[t].opts.serverId
    ELSE tasks[t].args.server

\* `last` after an attempt of a resolver called on its own: whether the
\* remote fetch answered, the guild the attempt had resolved (findChannel),
\* what the attempt returned or threw, and whether onRetry was then invoked
Attempt(op, fetched, guild, result, onRetry) ==
    [op |-> op, arg |-> fetched,
     ret |-> [guild |-> guild, result |-> result, onRetry |-> onRetry]]

\* an attempt of the findGuild awaited by call frame task threw error:
\* onRetry, a delay and another attempt, or findGuild throws error (a
\* findGuild called on its own keeps the number of its failed attempts)
GuildAttemptFailed(task, error) ==
    IF AttemptsRemain(task.g + 1)
    THEN [task EXCEPT !.g = @ + 1]
    ELSE Throw([task EXCEPT !.g = IF task.op = "findGuild" THEN @ + 1 ELSE 0],
               "Error", error.id)

\* an attempt of the findChannel awaited by call frame task threw error:
\* onRetry, a delay and another attempt, beginning with findGuild again, or
\* findChannel throws error (a findChannel called on its own keeps the
\* number of its failed attempts)
ChannelAttemptFailed(task, error) ==
    IF AttemptsRemain(task.ch + 1)
    THEN [task EXCEPT !.ch = @ + 1, !.g = 0, !.guild = None,
                      !.pc = "findChannelGuild"]
    ELSE Throw([task EXCEPT !.ch = IF task.op = "findChannel" THEN @ + 1
                                  ELSE 0,
                      !.g = 0, !.guild = None],
               "Error", error.id)

\* An attempt of the findGuild(client, identifier) awaited by create_listener
\* or called on its own settles.  When it throws it is retried while attempts
\* remain, else the call fails.  When it returns, findGuild returns the
\* guild; in create_listener serverId = guild.id, then the await of
\* findChannel when a channel was given too, else addListener
FindGuildSettle(t, fetched) ==
    /\ tasks[t].pc = "findGuild"
    /\ LET args == tasks[t].args
           guild == findGuild(GuildsOf(tasks[t].token), args.server, fetched)
           result == Attempt("findGuild", fetched, None, guild,
                             ~guild.ok /\ AttemptsRemain(tasks[t].g + 1))
       IN IF ~guild.ok
          THEN /\ tasks' = [tasks EXCEPT ![t] =
                              GuildAttemptFailed(tasks[t], guild)]
               /\ last' = IF tasks[t].op = "findGuild" THEN result ELSE Quiet
               /\ UNCHANGED <<clients, clientInfos, conn, nextListener>>
          ELSE IF tasks[t].op = "findGuild"
          THEN /\ tasks' = [tasks EXCEPT ![t] =
                    [@ EXCEPT !.pc = "done", !.ret = guild.id]]
               /\ last' = result
               /\ UNCHANGED <<clients, clientInfos, conn, nextListener>>
          ELSE IF Truthy(args.channel)
          THEN /\ tasks' = [tasks EXCEPT ![t] =
                    [@ EXCEPT
                        !.pc = "findChannelGuild", !.g = 0,
                        !.opts = Options(guild.id, None, args.keywords,
                                         args.handlerId)]]
               /\ last' = Quiet
               /\ UNCHANGED <<clients, clientInfos, conn, nextListener>>
          ELSE addListener(t, "create_listener", args, tasks[t].token,
                           Options(guild.id, None, args.keywords,
                                   args.handlerId),
                           clients, clientInfos, conn)
    /\ UNCHANGED <<cleanupInterval, now, handlers, events, dispatch, invoked>>

\* An attempt of the findGuild awaited by an attempt of findChannel settles.
\* When it throws it is retried while attempts remain, else the attempt of
\* findChannel has thrown.  When it returns, client.channels.fetch is awaited
FindChannelGuildSettle(t, fetched) ==
    /\ tasks[t].pc = "findChannelGuild"
    /\ LET guild == findGuild(GuildsOf(tasks[t].token), GuildIdentifier(t),
                              fetched)
           thrown == ~guild.ok /\ ~AttemptsRemain(tasks[t].g + 1)
       IN /\ tasks' = [tasks EXCEPT ![t] =
               IF guild.ok
               THEN [@ EXCEPT !.pc = "findChannelFetch", !.g = 0,
                              !.guild = guild.id]
               ELSE IF thrown
               THEN ChannelAttemptFailed(tasks[t], guild)
               ELSE GuildAttemptFailed(tasks[t], guild)]
          /\ last' = IF tasks[t].op = "findChannel"
                     THEN IF thrown
                          THEN Attempt("findChannel", fetched, None, guild,
                                       AttemptsRemain(tasks[t].ch + 1))
                          ELSE Attempt("findGuild", fetched, None, guild,
                                       ~guild.ok)
                     ELSE Quiet
    /\ UNCHANGED <<clients, clientInfos, conn, cleanupInterval, now, handlers,
                   nextListener, events, dispatch, invoked>>

\* The client.channels.fetch awaited by an attempt of findChannel settles and
\* the attempt ends.  When it throws, the attempt has thrown.  When it
\* returns, findChannel returns the channel; in create_listener
\* channelId = channel.id, then addListener
FindChannelSettle(t, fetched) ==
    /\ tasks[t].pc = "findChannelFetch"
    /\ LET args == tasks[t].args
           channel == findChannel(ChannelsOf(tasks[t].token), args.channel,
                                  tasks[t].guild, fetched)
           result == Attempt("findChannel", fetched, tasks[t].guild, channel,
                             ~channel.ok /\ AttemptsRemain(tasks[t].ch + 1))
       IN IF ~channel.ok
          THEN /\ tasks' = [tasks EXCEPT ![t] =
                              ChannelAttemptFailed(tasks[t], channel)]
               /\ last' = IF tasks[t].op = "findChannel" THEN result ELSE Quiet
               /\ UNCHANGED <<clients, clientInfos, conn, nextListener>>
          ELSE IF tasks[t].op = "findChannel"
          THEN /\ tasks' = [tasks EXCEPT ![t] =
                    [@ EXCEPT !.pc = "done", !.ret = channel.id]]
               /\ last' = result
               /\ UNCHANGED <<clients, clientInfos, conn, nextListener>>
          ELSE IF tasks[t].op \in {"send_message", "read_messages"}
          THEN /\ tasks' = [tasks EXCEPT ![t] =
                    [@ EXCEPT !.pc = "remote", !.ch = 0, !.guild = None]]
               /\ last' = Quiet
               /\ UNCHANGED <<clients, clientInfos, conn, nextListener>>
          ELSE addListener(t, "create_listener", args, tasks[t].token,
                           Options(tasks[t].opts.serverId, channel.id,
                                   args.keywords, args.handlerId),
                           clients, clientInfos, conn)
    /\ UNCHANGED <<cleanupInterval, now, handlers, events, dispatch, invoked>>

\* ------------------------------------------------------------- dispatching
\* the listeners the dispatch specification creates: unscoped, scoped to a
\* server, to a server and a channel, to a channel only; keywords in mixed
\* case, several keywords, no keyword; a handler that index.ts registers and
\* one that is registered later
DispatchOptions ==
    {Options(None, None, << <<"h", "i">> >>, "ack"),
     Options(<<"1">>, None, << <<"x">>, <<"H", "I">> >>, "echo"),
     Options(<<"1">>, <<"7">>, << <<"o">> >>, "late"),
     Options(None, <<"8">>, <<>>, "ack")}

\* the messages the platform emits: written by a user, by another bot, by
\* the bot of token "A"; in two servers and in a direct message
DispatchMessages ==
    {Message("user", <<"1">>, <<"7">>, <<"O", "h", "I">>),
     Message("user", <<"2">>, <<"8">>, <<"h", "i">>),
     Message("user", <<"1">>, <<"9">>, <<"x", "o">>),
     Message("user", None, <<"8">>, <<"H", "i">>),
     Message("otherbot", <<"1">>, <<"7">>, <<"h", "i">>),
     Message("A", <<"1">>, <<"7">>, <<"O", "h", "i">>)}

\* One credential: its session, listeners and inbound messages under every
\* interleaving of addListener calls, shutdowns, removals, registrations and
\* dispatches
NextDispatch ==
    \/ \E o \in DispatchOptions : AddListenerCall(1, "A", o)
    \/ AddListenerLoginResolve(1)
    \/ Return(1)
    \/ \E id \in 1..MaxListeners : removeListener(id)
    \/ register(lateHandler)
    \/ destroyAll
    \/ \E m \in DispatchMessages : NewEvent(m)
    \/ \E c \in Conns, e \in 1..MaxEvents : messageCreate(c, e)
    \/ \E c \in Conns, e \in 1..MaxEvents : HandlerSettle(c, e)

SpecDispatch == InitLongest /\ [][NextDispatch]_vars

\* The message a listener of PoolOptions answers
PoolMessage == Message("user", <<"1">>, <<"7">>, <<"O", "h", "I">>)

\* One credential whose session is requested by overlapping calls, with a
\* listener and the messages the gateway delivers to its clients
NextRace ==
    \/ \E t \in Tasks : GetClientCall(t, "A")
    \/ \E t \in Tasks : GetClientLoginResolve(t)
    \/ \E t \in Tasks : Return(t)
    \/ \E t \in Tasks : AddListenerCall(t, "A", PoolOptions)
    \/ \E t \in Tasks : AddListenerLoginResolve(t)
    \/ NewEvent(PoolMessage)
    \/ \E c \in Conns, e \in 1..MaxEvents : messageCreate(c, e)
    \/ \E c \in Conns, e \in 1..MaxEvents : HandlerSettle(c, e)

SpecRace == InitLongest /\ [][NextRace]_vars

\* the calls of create_listener the tool specification makes: no scope; a
\* server and a channel by name; by id; a channel only; a server only; an
\* unknown server; a channel of another server; only a channel that no
\* text channel is named
ToolCalls ==
    {ToolArgs(None, None, << <<"h", "i">> >>, "ack"),
     ToolArgs(<<"h", "I">>, <<"#", "H", "o">>, << <<"h", "i">> >>, "ack"),
     ToolArgs(<<"1">>, <<"7">>, << <<"h", "i">> >>, "echo"),
     ToolArgs(None, <<"h", "o">>, << <<"h", "i">> >>, "ack"),
     ToolArgs(<<"2">>, None, << <<"h", "i">> >>, "ack"),
     ToolArgs(<<"x">>, None, << <<"h", "i">> >>, "ack"),
     ToolArgs(<<"1">>, <<"8">>, << <<"h", "i">> >>, "ack"),
     ToolArgs(None, <<"x">>, << <<"h", "i">> >>, "ack")}

\* messages of a user in the two text channels named "ho"
ToolMessages ==
    {Message("user", <<"1">>, <<"7">>, <<"h", "i">>),
     Message("user", <<"2">>, <<"8">>, <<"H", "I">>)}

\* One credential: create_listener calls with their resolutions, shutdowns,
\* and the dispatch of messages to the listeners they stored
NextTool ==
    \/ \E a \in ToolCalls : CreateListenerCall(1, "A", a)
    \/ CreateListenerLoginResolve(1)
    \/ \E fetched \in BOOLEAN : FindGuildSettle(1, fetched)
    \/ \E fetched \in BOOLEAN : FindChannelGuildSettle(1, fetched)
    \/ \E fetched \in BOOLEAN : FindChannelSettle(1, fetched)
    \/ AddListenerLoginResolve(1)
    \/ LoginReject(1)
    \/ Return(1)
    \/ destroyAll
    \/ \E m \in ToolMessages : NewEvent(m)
    \/ \E c \in Conns, e \in 1..MaxEvents : messageCreate(c, e)
    \/ \E c \in Conns, e \in 1..MaxEvents : HandlerSettle(c, e)

SpecTool == InitLongest /\ [][NextTool]_vars

\* the credentials whose clients the resolver specification resolves with
ResolveTokens == {"E", "S", "D", "N"}

\* the server identifiers it passes: none, an id, names in another letter
\* case, an unknown name
GuildIdentifiers == {None, <<"1">>, <<"h", "i">>, <<"O">>, <<"x">>}

\* the channel identifiers it passes: ids, names in another letter case and
\* with a '#', the name of a channel that is not a text channel
ChannelIdentifiers ==
    {<<"7">>, <<"8">>, <<"9">>, <<"H", "O">>, <<"#", "h", "o">>,
     <<"h", "#", "o">>, <<"x">>}

\* Sessions of bots in no, one and several servers, and calls of findGuild
\* and findChannel with the clients of these sessions, every remote fetch
\* answering or failing
NextResolve ==
    \/ \E token \in ResolveTokens : GetClientCall(1, token)
    \/ GetClientLoginResolve(1)
    \/ Return(1)
    \/ \E token \in ResolveTokens, g \in GuildIdentifiers :
          FindGuildCall(1, token, g)
    \/ \E token \in ResolveTokens, ch \in ChannelIdentifiers,
          g \in GuildIdentifiers : FindChannelCall(1, token, ch, g)
    \/ \E fetched \in BOOLEAN : FindGuildSettle(1, fetched)
    \/ \E fetched \in BOOLEAN : FindChannelGuildSettle(1, fetched)
    \/ \E fetched \in BOOLEAN : FindChannelSettle(1, fetched)

SpecResolve == InitLongest /\ [][NextResolve]_vars

\* the listeners the late-registration specification creates: one whose
\* handler is registered after startup, one whose handler is registered then
LateOptions ==
    {Options(<<"1">>, <<"7">>, << <<"o">> >>, "late"),
     Options(None, None, << <<"h", "i">> >>, "ack")}

\* the create_listener call it makes, for the handler registered later
LateCall == ToolArgs(None, None, << <<"o">> >>, "late")

\* One credential: listeners created by addListener and by the
\* create_listener tool before and after their handler is registered, and
\* the dispatch of a message that matches them
NextLate ==
    \/ \E o \in LateOptions : AddListenerCall(1, "A", o)
    \/ AddListenerLoginResolve(1)
    \/ CreateListenerCall(1, "A", LateCall)
    \/ CreateListenerLoginResolve(1)
    \/ Return(1)
    \/ register(lateHandler)
    \/ NewEvent(PoolMessage)
    \/ \E c \in Conns, e \in 1..MaxEvents : messageCreate(c, e)
    \/ \E c \in Conns, e \in 1..MaxEvents : HandlerSettle(c, e)

SpecLate == InitLongest /\ [][NextLate]_vars

\* the calls of create_listener the failure specification makes: no scope;
\* a server; an unknown server; a handler that is not registered
FailCalls ==
    {ToolArgs(None, None, << <<"h", "i">> >>, "ack"),
     ToolArgs(<<"1">>, None, << <<"h", "i">> >>, "ack"),
     ToolArgs(<<"x">>, None, << <<"h", "i">> >>, "ack"),
     ToolArgs(None, None, << <<"h", "i">> >>, "late")}

\* the channels its send_message and read_messages name: one that is
\* found, one that is not
FailChannels ==
    {ResolverArgs(<<"1">>, <<"7">>), ResolverArgs(<<"1">>, <<"x">>)}

\* One call at a time, of a tool or of getClient, with or without a token,
\* with every failure its awaits can end in: a rejected login, a failed
\* resolution, a rejected remote call
NextFail ==
    \/ \E token \in {"A", ""}, a \in FailCalls :
          CreateListenerCall(1, token, a)
    \/ CreateListenerLoginResolve(1)
    \/ \E op \in {"send_message", "read_messages"}, token \in {"A", ""},
          a \in FailChannels : ChannelToolCall(1, op, token, a)
    \/ ChannelToolLoginResolve(1)
    \/ GetClientCall(1, "A")
    \/ GetClientLoginResolve(1)
    \/ \E fetched \in BOOLEAN : FindGuildSettle(1, fetched)
    \/ \E fetched \in BOOLEAN : FindChannelGuildSettle(1, fetched)
    \/ \E fetched \in BOOLEAN : FindChannelSettle(1, fetched)
    \/ \E ok \in BOOLEAN : RemoteSettle(1, ok)
    \/ AddListenerLoginResolve(1)
    \/ LoginReject(1)
    \/ Return(1)
    \/ destroyAll

SpecFail == InitLongest /\ [][NextFail]_vars

\* the listeners the isolation specification creates: all unscoped with one
\* keyword, with a handler that is never registered and with the two of
\* startup
IsolationOptions ==
    {Options(None, None, << <<"h", "i">> >>, h) : h \in {"late", "ack", "echo"}}

\* One credential: listeners, and messages that match all of them or none,
\* dispatched with handlers that resolve or reject
NextIsolation ==
    \/ \E o \in IsolationOptions : AddListenerCall(1, "A", o)
    \/ AddListenerLoginResolve(1)
    \/ Return(1)
    \/ \E m \in {PoolMessage, Message("user", <<"1">>, <<"7">>, <<"x">>)} :
          NewEvent(m)
    \/ \E c \in Conns, e \in 1..MaxEvents : messageCreate(c, e)
    \/ \E c \in Conns, e \in 1..MaxEvents, ok \in BOOLEAN :
          HandlerOutcome(c, e, ok)

SpecIsolation == InitLongest /\ [][NextIsolation]_vars

\* the listeners the idle specification creates: unscoped, one keyword, the
\* handlers of startup
IdleOptions ==
    {Options(None, None, << <<"h", "i">> >>, h) : h \in {"ack", "echo"}}

\* One credential whose session gets listeners and then only inbound
\* messages, while time passes and the sweep runs
NextIdle ==
    \/ \E o \in IdleOptions : AddListenerCall(1, "A", o)
    \/ AddListenerLoginResolve(1)
    \/ Return(1)
    \/ Tick
    \/ cleanupInactiveClients
    \/ NewEvent(PoolMessage)
    \/ \E c \in Conns, e \in 1..MaxEvents : messageCreate(c, e)
    \/ \E c \in Conns, e \in 1..MaxEvents : HandlerSettle(c, e)

SpecIdle == Init /\ [][NextIdle]_vars

\* One credential: send_message and read_messages calls with their
\* resolutions and remote calls, while time passes and the sweep runs
NextBusy ==
    \/ \E op \in {"send_message", "read_messages"} :
          ChannelToolCall(1, op, "A", ResolverArgs(<<"1">>, <<"7">>))
    \/ ChannelToolLoginResolve(1)
    \/ LoginReject(1)
    \/ \E fetched \in BOOLEAN : FindChannelGuildSettle(1, fetched)
    \/ \E fetched \in BOOLEAN : FindChannelSettle(1, fetched)
    \/ \E ok \in BOOLEAN : RemoteSettle(1, ok)
    \/ Return(1)
    \/ Tick
    \/ cleanupInactiveClients

SpecBusy == Init /\ [][NextBusy]_vars

\* Two credentials: listeners are added to their sessions and removed, by
\* ids that are held and ids that are not, while time passes
NextRemove ==
    \/ \E token \in Tokens, o \in IdleOptions : AddListenerCall(1, token, o)
    \/ AddListenerLoginResolve(1)
    \/ Return(1)
    \/ \E id \in 1..MaxListeners : removeListener(id)
    \/ Tick

SpecRemove == Init /\ [][NextRemove]_vars

\* the handlers the registry specification registers: under the ids of the
\* startup handlers and under a new id, two handlers for each
RegistryHandlers ==
    {Handler(id, name) : id \in {"ack", "echo", "late"}, name \in {"v1", "v2"}}

\* the ids it looks up: registered at startup, registered later, never
RegistryIds == {"ack", "echo", "late", "x"}

\* The registry under registrations and lookups in every order
NextRegistry ==
    \/ \E handler \in RegistryHandlers : register(handler)
    \/ \E id \in RegistryIds : GetHandlerCall(id)
    \/ ListHandlersCall

SpecRegistry == InitLongest /\ [][NextRegistry]_vars

\* Sessions of two credentials with listeners, requested by one call at a
\* time, under sweeps and shutdowns; removeListener is called for ids that no
\* session holds, so that a listener leaves the pool only with its session
NextSweep ==
    \/ \E token \in Tokens : GetClientCall(1, token)
    \/ GetClientLoginResolve(1)
    \/ Return(1)
    \/ \E token \in Tokens : AddListenerCall(1, token, PoolOptions)
    \/ AddListenerLoginResolve(1)
    \/ \E token \in Tokens \cup {""} : getListeners(token)
    \/ \E id \in 1..MaxListeners : Owner(id) = 0 /\ removeListener(id)
    \/ Tick
    \/ cleanupInactiveClients
    \/ destroyAll

SpecSweep == Init /\ [][NextSweep]_vars

\* ============================================================= claims

\* ------------------------------------------------------------- C1
\* C1: two getClient calls for a credential with no session, the second
\* begun while the login of the first was still awaited, return the same
\* Client, and only one Client is constructed for the credential.
C1_OverlappingCallsShareSession ==
    \A t1, t2 \in Tasks :
        (/\ t1 # t2
         /\ tasks[t1].op = "getClient" /\ tasks[t1].pc = "done"
         /\ tasks[t2].op = "getClient" /\ tasks[t2].pc = "done"
         /\ tasks[t1].token = tasks[t2].token
         /\ tasks[t1].client \in tasks[t2].pending)
        => /\ tasks[t1].ret = tasks[t2].ret
           /\ tasks[t2].client = tasks[t1].client

\* ------------------------------------------------------------- C2
\* C2: every client that has logged in and has not been destroyed is the
\* client stored in the pool under its token.
C2_LiveClientIsPooled ==
    \A c \in Conns :
        conn[c].state = "ready" => Get(clients, conn[c].token) = c

\* ------------------------------------------------------------- C3
\* C3: for every message event and every listener, the listener's handler is
\* invoked at most once for that event.
C3_HandlerInvokedAtMostOnce ==
    \A e \in 1..MaxEvents, l \in 1..MaxListeners : invoked[<<e, l>>] <= 1

\* ------------------------------------------------------------- C4
\* keyword kw occurs in text, letter case ignored
CI_Contains(text, kw) ==
    \E i \in 0..(Len(text) - Len(kw)) :
        \A j \in 1..Len(kw) : LowerChar(text[i + j]) = LowerChar(kw[j])

\* some keyword of listener L occurs in the message, letter case ignored
CI_AnyKeyword(L, m) ==
    \E k \in 1..Len(L.options.keywords) :
        CI_Contains(m.content, L.options.keywords[k])

\* the message originates inside the scope listener L declares
InScope(L, m) ==
    /\ L.options.serverId # None => m.guild = L.options.serverId
    /\ L.options.channelId # None => m.channel = L.options.channelId

\* this step starts or resumes the callback of client c for event e
Stepped(c, e) ==
    /\ <<c, e>> \in DOMAIN dispatch'
    /\ <<c, e>> \in DOMAIN dispatch => dispatch'[<<c, e>>] # dispatch[<<c, e>>]

\* the ClientInfo whose listeners the callback of c for e goes through in
\* this step: the session of c's token when it starts (0 when there is none)
SteppedInfo(c, e) ==
    IF <<c, e>> \in DOMAIN dispatch THEN dispatch[<<c, e>>].info
    ELSE Get(clients, conn[c].token)

\* listener L is one the callback of c for e goes past in this step
Passed(c, e, L) ==
    /\ L.id > (IF <<c, e>> \in DOMAIN dispatch THEN dispatch[<<c, e>>].pos
               ELSE 0)
    /\ dispatch'[<<c, e>>].pc = "handler" => L.id <= dispatch'[<<c, e>>].pos

\* the claim as written: the message is not authored by the bot itself
C4_OwesUnlessSelf(c, e, L) ==
    /\ events[e].message.author # conn[c].token
    /\ InScope(L, events[e].message)
    /\ CI_AnyKeyword(L, events[e].message)
    /\ L.options.handlerId \in HandlerIds

\* the claim as amended: the message is not authored by any bot
C4_OwesUnlessBot(c, e, L) ==
    /\ events[e].message.author = "user"
    /\ InScope(L, events[e].message)
    /\ CI_AnyKeyword(L, events[e].message)
    /\ L.options.handlerId \in HandlerIds

\* listener L declares neither a server nor a channel
Unscoped(L) == L.options.serverId = None /\ L.options.channelId = None

\* an unscoped listener and a matching message of a user
C7_OwesUnscoped(c, e, L) ==
    /\ Unscoped(L)
    /\ events[e].message.author = "user"
    /\ CI_AnyKeyword(L, events[e].message)
    /\ L.options.handlerId \in HandlerIds

\* a listener whose handler was not registered at startup and a matching
\* message of a user, the handler being registered now
C21_OwesLate(c, e, L) ==
    /\ L.options.handlerId \notin RegisteredAtStartup
    /\ C4_OwesUnlessBot(c, e, L)

\* listener L is owed an invocation for event e by the callback of c
Owes(sense, c, e, L) ==
    CASE sense = "unlessSelf" -> C4_OwesUnlessSelf(c, e, L)
      [] sense = "unlessBot" -> C4_OwesUnlessBot(c, e, L)
      [] sense = "unscoped" -> C7_OwesUnscoped(c, e, L)
      [] sense = "late" -> C21_OwesLate(c, e, L)

\* In a step of a callback, every listener it goes past that is owed a
\* handler invocation, in the given sense, gets it
EveryOwedInvoked(sense) ==
    \A c \in Conns, e \in 1..Len(events) :
        (Stepped(c, e) /\ SteppedInfo(c, e) # 0) =>
            \A i \in 1..Len(clientInfos[SteppedInfo(c, e)].listeners) :
                LET L == clientInfos[SteppedInfo(c, e)].listeners[i]
                IN (Passed(c, e, L) /\ Owes(sense, c, e, L))
                   => invoked'[<<e, L.id>>] = invoked[<<e, L.id>>] + 1

\* C4 as written: every listener of the session whose scope and keywords a
\* message matches has its registered handler invoked when the message is not
\* authored by the bot itself.
C4_MatchingDispatchedUnlessSelf == [][EveryOwedInvoked("unlessSelf")]_vars

\* C4 as amended: every listener of the session whose scope and keywords a
\* message matches has its registered handler invoked when the message is not
\* authored by a bot account (the session's own bot or any other bot).
C4_MatchingDispatchedUnlessBot == [][EveryOwedInvoked("unlessBot")]_vars

\* the callback has just run for a user's message and is awaiting the handler
\* of a listener that declares a server and has a keyword in another case
C4_Witness ==
    /\ last.op = "messageCreate"
    /\ dispatch[last.arg].pc = "handler"
    /\ events[last.arg[2]].message.author = "user"
    /\ \E i \in 1..Len(clientInfos[dispatch[last.arg].info].listeners) :
          LET L == clientInfos[dispatch[last.arg].info].listeners[i]
          IN /\ L.id = dispatch[last.arg].pos
             /\ L.options.serverId # None
             /\ ~containsKeywordAsWritten(L, events[last.arg[2]].message)
             /\ invoked[<<last.arg[2], L.id>>] = 1

\* ------------------------------------------------------------- C5
\* the listener with this id, in whichever ClientInfo holds it
ListenerById(id) ==
    LET c == CHOOSE c \in Conns : id \in ListenerIds(clientInfos[c])
        i == CHOOSE i \in 1..Len(clientInfos[c].listeners) :
                 clientInfos[c].listeners[i].id = id
    IN clientInfos[c].listeners[i]

\* C5: a handler is invoked for a listener only when the message text
\* contains one of the listener's keywords, letter case ignored; a listener
\* without keywords is never invoked.
C5_NoKeywordNoDispatch ==
    [][\A e \in 1..MaxEvents, l \in 1..MaxListeners :
          invoked'[<<e, l>>] > invoked[<<e, l>>]
          => CI_AnyKeyword(ListenerById(l), events[e].message)]_vars

\* the callback has just run for a user's message past a listener in scope,
\* with a registered handler, none of whose keywords the text contains
C5_Witness ==
    /\ last.op = "messageCreate"
    /\ events[last.arg[2]].message.author = "user"
    /\ Has(clients, conn[last.arg[1]].token)
    /\ LET ls == clientInfos[Get(clients, conn[last.arg[1]].token)].listeners
       IN \E i \in 1..Len(ls) :
            /\ InScope(ls[i], events[last.arg[2]].message)
            /\ ls[i].options.handlerId \in HandlerIds
            /\ ls[i].options.keywords # <<>>
            /\ ~CI_AnyKeyword(ls[i], events[last.arg[2]].message)
            /\ invoked[<<last.arg[2], ls[i].id>>] = 0
            /\ dispatch[last.arg].pc = "handler"
            /\ dispatch[last.arg].pos > ls[i].id

\* ------------------------------------------------------------- C6
\* the identifier names channel ch: by its id, or by its name with the
\* letter case and a leading '#' ignored
DenotesChannel(identifier, ch) ==
    \/ ch.id = identifier
    \/ toLowerCase(ch.name) = toLowerCase(identifier)
    \/ /\ identifier # <<>>
       /\ identifier[1] = "#"
       /\ toLowerCase(ch.name) = toLowerCase(Tail(identifier))

\* the identifier names server g: by its id, or by its name with the letter
\* case ignored
DenotesGuild(identifier, g) ==
    \/ g.id = identifier
    \/ toLowerCase(g.name) = toLowerCase(identifier)

\* C6: whenever create_listener succeeds after being given a channel
\* identifier, the stored listener's channelId is the id of a channel the
\* identifier names (and its serverId the id of the server a given server
\* identifier names), whether or not a server identifier was given; the
\* listener is then only invoked for messages from that channel.
C6_ChannelScopeStored ==
    \A t \in Tasks :
        (tasks[t].op = "create_listener" /\ tasks[t].pc = "done") =>
            /\ Truthy(tasks[t].args.channel) =>
                 /\ \E ch \in Channels :
                       /\ DenotesChannel(tasks[t].args.channel, ch)
                       /\ tasks[t].opts.channelId = ch.id
                 /\ \A e \in 1..Len(events) :
                       invoked[<<e, tasks[t].ret>>] > 0 =>
                          \E ch \in Channels :
                             /\ DenotesChannel(tasks[t].args.channel, ch)
                             /\ events[e].message.channel = ch.id
            /\ Truthy(tasks[t].args.server) =>
                 \E g \in Guilds :
                    /\ DenotesGuild(tasks[t].args.server, g)
                    /\ tasks[t].opts.serverId = g.id

\* ------------------------------------------------------------- C7
\* C7: a handler is invoked for a listener only when the message comes from
\* the server the listener declares (if any) and from the channel it declares
\* (if any); a listener declaring neither is invoked for a user's matching
\* message from any server and channel.
C7_ScopeRespected ==
    [][/\ \A e \in 1..MaxEvents, l \in 1..MaxListeners :
            invoked'[<<e, l>>] > invoked[<<e, l>>]
            => InScope(ListenerById(l), events[e].message)
       /\ EveryOwedInvoked("unscoped")]_vars

\* the callback has just run for a user's message: it went past a listener
\* that declares another channel (its server, keywords and handler match) and
\* invoked a later one
C7_Witness ==
    /\ last.op = "messageCreate"
    /\ events[last.arg[2]].message.author = "user"
    /\ dispatch[last.arg].pc = "handler"
    /\ LET ls == clientInfos[dispatch[last.arg].info].listeners
           m == events[last.arg[2]].message
       IN \E i, j \in 1..Len(ls) :
            /\ i < j
            /\ ls[i].options.channelId # None
            /\ ls[i].options.channelId # m.channel
            /\ ls[i].options.serverId = m.guild
            /\ CI_AnyKeyword(ls[i], m)
            /\ ls[i].options.handlerId \in HandlerIds
            /\ invoked[<<last.arg[2], ls[i].id>>] = 0
            /\ ls[j].id = dispatch[last.arg].pos
            /\ invoked[<<last.arg[2], ls[j].id>>] = 1

\* ------------------------------------------------------------- C8
\* C8: the callback of a client never invokes a handler for a message
\* authored by the bot of the client's own token.
C8_OwnMessagesIgnored ==
    [][\A c \in Conns, e \in 1..Len(events) :
          (Stepped(c, e) /\ events[e].message.author = conn[c].token)
          => invoked' = invoked]_vars

\* the callback has just run for a message of the session's own bot, and the
\* session has a listener whose scope, keywords and handler match it
C8_Witness ==
    /\ last.op = "messageCreate"
    /\ events[last.arg[2]].message.author = conn[last.arg[1]].token
    /\ Has(clients, conn[last.arg[1]].token)
    /\ LET ls == clientInfos[Get(clients, conn[last.arg[1]].token)].listeners
       IN \E i \in 1..Len(ls) :
            /\ Passes(ls[i], events[last.arg[2]].message)
            /\ ls[i].options.handlerId \in HandlerIds
            /\ invoked[<<last.arg[2], ls[i].id>>] = 0

\* ------------------------------------------------------------- C9
\* entry i of the pool is older than the idle threshold
C9_Idle(i) == clientInfos[clients[i].client].lastUsed + cleanupInterval < now

\* position of the entry of token tok in the Map m
C9_Pos(m, tok) == CHOOSE i \in 1..Len(m) : m[i].token = tok

\* C9: one sweep destroys and removes exactly the sessions whose lastUsed is
\* older than the idle threshold, and leaves every other session in the
\* pool, in the same order, with its client, lastUsed and listeners unchanged.
C9_SweepEvictsExactlyIdle ==
    [][last'.op = "cleanup" =>
        /\ \A i \in 1..Len(clients) :
              IF C9_Idle(i)
              THEN /\ ~Has(clients', clients[i].token)
                   /\ conn'[clients[i].client].state = "destroyed"
              ELSE /\ Get(clients', clients[i].token) = clients[i].client
                   /\ clientInfos'[clients[i].client]
                        = clientInfos[clients[i].client]
                   /\ conn'[clients[i].client] = conn[clients[i].client]
        /\ \A k \in 1..Len(clients') : Has(clients, clients'[k].token)
        /\ \A i, j \in 1..Len(clients) :
              (i < j /\ ~C9_Idle(i) /\ ~C9_Idle(j))
              => C9_Pos(clients', clients[i].token)
                   < C9_Pos(clients', clients[j].token)
        /\ last'.ret = {clients[i].client : i \in {j \in 1..Len(clients) : C9_Idle(j)}}
    ]_vars

\* a sweep has just evicted one session and kept another
C9_Witness ==
    /\ last.op = "cleanup"
    /\ last.ret # {}
    /\ clients # <<>>

\* ------------------------------------------------------------- C10
\* C10: a call that resolves a pooled session by its token (getClient,
\* addListener, getListeners with a token) sets its lastUsed to Date.now().
C10_ResolvingRefreshesLastUsed ==
    [][/\ \A t \in Tasks :
            (/\ tasks[t].op = "idle"
             /\ tasks'[t].op \in {"getClient", "addListener"}
             /\ Has(clients, tasks'[t].token))
            => clientInfos'[Get(clients, tasks'[t].token)].lastUsed = now
       /\ (last'.op = "getListeners" /\ Has(clients, last'.arg))
            => clientInfos'[Get(clients, last'.arg)].lastUsed = now
    ]_vars

\* ------------------------------------------------------------- C11
\* C11: when the login awaited by a getClient call is rejected, the call
\* fails with the login failure, the client it constructed is destroyed, and
\* neither that step nor the step that began the call changes the pool: no
\* entry is added for the credential and no other entry changes.
C11_FailedLoginLeavesPool ==
    [][\A t \in Tasks :
          /\ (tasks[t].pc = "idle" /\ tasks'[t].pc \in {"login", "addLogin"})
                => clients' = clients /\ clientInfos' = clientInfos
          /\ (tasks[t].pc \in {"login", "addLogin"} /\ tasks'[t].pc = "failed")
                => /\ tasks'[t].ret = <<"login">>
                   /\ conn'[tasks[t].client].state = "destroyed"
                   /\ clients' = clients
                   /\ clientInfos' = clientInfos]_vars

\* a getClient call has failed on its login while the pool holds the session
\* of another credential and none of its own
C11_Witness ==
    \E t \in Tasks :
        /\ tasks[t].pc = "failed"
        /\ tasks[t].ret = <<"login">>
        /\ conn[tasks[t].client].state = "destroyed"
        /\ clients # <<>>
        /\ ~Has(clients, tasks[t].token)

\* ------------------------------------------------------------- C12
\* an attempt of findGuild or findChannel, called on their own, has just
\* ended in a not-found or ambiguous failure although every remote fetch it
\* made answered
DeterministicFailure ==
    /\ last.op \in {"findGuild", "findChannel"}
    /\ last.arg
    /\ ~last.ret.result.ok

\* C12: when an attempt of findGuild or findChannel ends in a not-found or
\* ambiguous failure, onRetry is not invoked and no other attempt follows:
\* the call has failed.
C12_DeterministicNeverRetried ==
    DeterministicFailure =>
        /\ ~last.ret.onRetry
        /\ \A t \in Tasks :
              tasks[t].op \in {"findGuild", "findChannel"}
                 => tasks[t].pc = "failed"

\* ------------------------------------------------------------- C13
\* C13: a findGuild call without an identifier never fails with the
\* "multiple servers" error when the bot is in no server or in one, and
\* always fails with it when the bot is in two or more.
C13_OmittedScopeAmbiguousOnlyIfSeveral ==
    \A t \in Tasks :
        (/\ tasks[t].op = "findGuild"
         /\ ~Truthy(tasks[t].args.server)
         /\ tasks[t].pc \in {"done", "failed"}) =>
            LET ambiguous == /\ tasks[t].pc = "failed"
                             /\ tasks[t].ret = <<"multiple servers">>
            IN IF Cardinality(GuildsOf(tasks[t].token)) >= 2
               THEN ambiguous ELSE ~ambiguous

\* ------------------------------------------------------------- C14
\* the servers of a bot whose name is the identifier, letter case ignored
NamedGuilds(token, identifier) ==
    {g \in GuildsOf(token) :
        /\ Len(g.name) = Len(identifier)
        /\ \A i \in 1..Len(identifier) :
              LowerChar(g.name[i]) = LowerChar(identifier[i])}

\* C14: an attempt of findGuild with an identifier returns the server with
\* that id when the lookup by id answers with it; otherwise it throws "not
\* found" when no server of the bot has the identifier as its name, letter
\* case ignored, returns that server when exactly one has, and throws
\* "multiple servers found" when several have.  The call returns what its
\* last attempt returned and fails with what its last attempt threw.
C14_GuildByIdThenUniqueName ==
    \A t \in Tasks :
        (/\ tasks[t].op = "findGuild"
         /\ Truthy(tasks[t].args.server)
         /\ last.op = "findGuild") =>
            LET identifier == tasks[t].args.server
                named == NamedGuilds(tasks[t].token, identifier)
                result == last.ret.result
            IN /\ IF /\ last.arg
                     /\ \E g \in GuildsOf(tasks[t].token) : g.id = identifier
                  THEN result.ok /\ result.id = identifier
                  ELSE /\ named = {} =>
                            ~result.ok /\ result.id = <<"server not found">>
                       /\ Cardinality(named) = 1 =>
                            result.ok /\ \E g \in named : result.id = g.id
                       /\ Cardinality(named) > 1 =>
                            /\ ~result.ok
                            /\ result.id = <<"multiple servers found">>
               /\ tasks[t].pc = "done" => result.ok /\ tasks[t].ret = result.id
               /\ tasks[t].pc = "failed" =>
                     ~result.ok /\ tasks[t].ret = result.id

\* findGuild has failed for a name that two servers of the bot have
C14_Witness ==
    \E t \in Tasks :
        /\ tasks[t].op = "findGuild"
        /\ tasks[t].pc = "failed"
        /\ last.op = "findGuild"
        /\ Cardinality(NamedGuilds(tasks[t].token, tasks[t].args.server)) = 2
        /\ tasks[t].ret = <<"multiple servers found">>

\* ------------------------------------------------------------- C15
\* C15: the channel a findChannel call returns is a text channel of the
\* server its findGuild resolved, and that server is one the bot is in.
C15_ChannelOfResolvedGuild ==
    \A t \in Tasks :
        (tasks[t].op = "findChannel" /\ tasks[t].pc = "done") =>
            /\ \E g \in GuildsOf(tasks[t].token) : g.id = tasks[t].guild
            /\ \E ch \in ChannelsOf(tasks[t].token) :
                  /\ ch.id = tasks[t].ret
                  /\ ch.text
                  /\ ch.guild = tasks[t].guild

\* findChannel has returned the channel whose id it was given, the bot being
\* in other servers with text channels too
C15_Witness ==
    \E t \in Tasks :
        /\ tasks[t].op = "findChannel"
        /\ tasks[t].pc = "done"
        /\ tasks[t].ret = tasks[t].args.channel
        /\ \E ch \in ChannelsOf(tasks[t].token) :
              ch.text /\ ch.guild # tasks[t].guild

\* ------------------------------------------------------------- C16
\* the identifier without a leading '#'
WithoutLeadingHash(identifier) ==
    IF identifier # <<>> /\ Head(identifier) = "#" THEN Tail(identifier)
    ELSE identifier

\* two strings are equal, letter case ignored
CI_Equal(a, b) ==
    Len(a) = Len(b) /\ \A i \in 1..Len(a) : LowerChar(a[i]) = LowerChar(b[i])

\* the text channels of server guild whose name is the identifier, with or
\* without its leading '#', letter case ignored
NamedChannels(token, guild, identifier) ==
    {ch \in ChannelsOf(token) :
        /\ ch.text
        /\ ch.guild = guild
        /\ \/ CI_Equal(ch.name, identifier)
           \/ CI_Equal(ch.name, WithoutLeadingHash(identifier))}

\* an attempt of a findChannel call of task t has just ended, its findGuild
\* having returned a guild
ChannelAttempted(t) ==
    /\ tasks[t].op = "findChannel"
    /\ last.op = "findChannel"
    /\ last.ret.guild # None

\* C16: an attempt of findChannel in which the lookup by id finds no channel
\* throws "not found" when no text channel of the resolved server has the
\* identifier (a leading '#' stripped, letter case ignored) as its name,
\* returns that channel when exactly one has, and throws "multiple channels
\* found", listing the ids of all of them, when two or more have; an attempt
\* in which the lookup by id answers with a text channel of the resolved
\* server returns that channel, also when other channels have its name.
C16_ChannelByUniqueNameOrId ==
    \A t \in Tasks :
        ChannelAttempted(t) =>
            LET identifier == tasks[t].args.channel
                named == NamedChannels(tasks[t].token, last.ret.guild,
                                       identifier)
                result == last.ret.result
            IN IF last.arg /\ \E ch \in ChannelsOf(tasks[t].token) :
                                 ch.id = identifier
               THEN (\E ch \in ChannelsOf(tasks[t].token) :
                        /\ ch.id = identifier
                        /\ ch.text
                        /\ ch.guild = last.ret.guild)
                    => result.ok /\ result.id = identifier
               ELSE /\ named = {} =>
                         ~result.ok /\ result.id = <<"channel not found">>
                    /\ Cardinality(named) = 1 =>
                         result.ok /\ \E ch \in named : result.id = ch.id
                    /\ Cardinality(named) > 1 =>
                         /\ ~result.ok
                         /\ result.id = <<"multiple channels found">>
                         /\ result.listed = {ch.id : ch \in named}

\* ------------------------------------------------------------- C17
\* the ids in a list of ListenerInfo
InfoIds(infos) == {infos[i].id : i \in 1..Len(infos)}

\* getListeners() returns a ListenerInfo with this id
ListedUnfiltered(id) == id \in InfoIds(AllListeners(clients))

\* getListeners(token) returns a ListenerInfo with this id
ListedFor(token, id) ==
    /\ Has(clients, token)
    /\ id \in InfoIds(FormatAll(clientInfos[Get(clients, token)].listeners))

\* this step is a removeListener(id) that returns true
RemovedNow(id) ==
    /\ last'.op = "removeListener"
    /\ last'.arg = id
    /\ last'.ret

\* this step destroys the session that holds listener id: its client is
\* destroyed and its entry leaves the pool
SessionDestroyedNow(id) ==
    LET c == clients[Owner(id)].client
    IN conn'[c].state = "destroyed" /\ c \notin Values(clients')

\* C17: the id a successful addListener returns is in what getListeners()
\* and getListeners(token) of its credential return; it stays there until a
\* removeListener(id) returns true or its session is destroyed; after a
\* removeListener(id) that returned true it is there no longer.
C17_ListedUntilRemoved ==
    [][\A id \in 1..MaxListeners :
          /\ \A t \in Tasks :
                (/\ tasks[t].pc # "done"
                 /\ tasks'[t].pc = "done"
                 /\ tasks'[t].op \in {"addListener", "create_listener"}
                 /\ tasks'[t].ret = id)
                   => /\ ListedUnfiltered(id)'
                      /\ \E token \in Tokens :
                            /\ token = tasks'[t].token
                            /\ ListedFor(token, id)'
          /\ (ListedUnfiltered(id) /\ ~ListedUnfiltered(id)')
                => RemovedNow(id) \/ SessionDestroyedNow(id)
          /\ \A token \in Tokens :
                (ListedFor(token, id) /\ ~ListedFor(token, id)')
                   => RemovedNow(id) \/ SessionDestroyedNow(id)
          /\ RemovedNow(id) =>
                /\ ~ListedUnfiltered(id)'
                /\ \A token \in Tokens : ~ListedFor(token, id)']_vars

\* ------------------------------------------------------------- C18
\* some session of the pool holds a listener with this id
HeldBySomeSession(id) ==
    \E i \in 1..Len(clients) :
        id \in ListenerIds(clientInfos[clients[i].client])

\* C18: removeListener(id) returns true exactly when some session holds a
\* listener with that id, and then none holds it any more; called again
\* right after it returned true, it returns false.
C18_RemoveTrueThenFalse ==
    [][\A id \in 1..MaxListeners :
          (last'.op = "removeListener" /\ last'.arg = id) =>
              /\ last'.ret = HeldBySomeSession(id)
              /\ ~HeldBySomeSession(id)'
              /\ (last.op = "removeListener" /\ last.arg = id /\ last.ret)
                    => ~last'.ret]_vars

\* removeListener has returned false for the id of a listener that was
\* created and whose session is still pooled, no client ever destroyed: an
\* earlier removeListener returned true for it
C18_Witness ==
    /\ last.op = "removeListener"
    /\ ~last.ret
    /\ last.arg <= nextListener
    /\ clients # <<>>
    /\ \A c \in Conns : conn[c].destroys = 0

\* ------------------------------------------------------------- C19
\* the servers of a bot that a server identifier resolves to: the one with
\* that id, else the one with that name; the bot's only server when no
\* identifier is given
ResolvedGuilds(token, identifier) ==
    IF ~Truthy(identifier)
    THEN IF Cardinality(GuildsOf(token)) = 1 THEN GuildsOf(token) ELSE {}
    ELSE IF \E g \in GuildsOf(token) : g.id = identifier
    THEN {g \in GuildsOf(token) : g.id = identifier}
    ELSE IF Cardinality(NamedGuilds(token, identifier)) = 1
    THEN NamedGuilds(token, identifier)
    ELSE {}

\* a channel identifier resolves to a real channel within the given server
\* scope: a text channel of the resolved server with that id, or the only
\* one with that name
ChannelResolves(token, server, identifier) ==
    \E g \in ResolvedGuilds(token, server) :
        \/ \E ch \in ChannelsOf(token) :
              ch.id = identifier /\ ch.text /\ ch.guild = g.id
        \/ Cardinality(NamedChannels(token, g.id, identifier)) = 1

\* the listeners maps of all sessions, and the ids given out
AllListenerMaps ==
    <<[c \in Conns |-> clientInfos[c].listeners], nextListener>>

\* C19: create_listener succeeds only if the server identifier it was given
\* resolves to a server and the channel identifier it was given resolves to
\* a text channel; the step in which it fails leaves every session's
\* listeners as they were.
C19_FailsFastOnUnresolvedScope ==
    [][\A t \in Tasks :
          /\ (/\ tasks'[t].op = "create_listener"
              /\ tasks[t].pc # "done"
              /\ tasks'[t].pc = "done")
                => \E token \in Tokens :
                      /\ token = tasks'[t].token
                      /\ Truthy(tasks'[t].args.server) =>
                            ResolvedGuilds(token, tasks'[t].args.server) # {}
                      /\ Truthy(tasks'[t].args.channel) =>
                            ChannelResolves(token, tasks'[t].args.server,
                                            tasks'[t].args.channel)
          /\ (/\ tasks'[t].op = "create_listener"
              /\ tasks[t].pc # "failed"
              /\ tasks'[t].pc = "failed")
                => AllListenerMaps' = AllListenerMaps]_vars

\* ------------------------------------------------------------- C20
\* C20: every listener stored in a session has at least one keyword, and no
\* addListener call given an empty keyword sequence succeeds.
C20_KeywordsNonEmpty ==
    /\ \A c \in Conns :
          \A i \in 1..Len(clientInfos[c].listeners) :
              clientInfos[c].listeners[i].options.keywords # <<>>
    /\ \A t \in Tasks :
          (tasks[t].op = "addListener" /\ tasks[t].opts.keywords = <<>>)
             => tasks[t].pc # "done"

\* ------------------------------------------------------------- C21
\* C21 as written: no call that adds a listener, by addListener or by the
\* create_listener tool, fails because the handlerId is not registered at
\* that moment, and once the handler is registered matching messages are
\* dispatched to it.
C21_AbsenceNeverFailsAdding ==
    [][/\ \A t \in Tasks :
             (/\ tasks'[t].op \in {"addListener", "create_listener"}
              /\ tasks'[t].pc = "failed")
                => tasks'[t].ret # <<"handler not found">>
       /\ EveryOwedInvoked("late")]_vars

\* C21 as amended: DiscordClientManager.addListener never fails because the
\* handlerId is not registered and stores the listener, and once the handler
\* is registered matching messages of users are dispatched to it.
C21_AbsenceNeverFailsAddListener ==
    [][/\ \A t \in Tasks :
             /\ (tasks'[t].op = "addListener" /\ tasks'[t].pc = "failed")
                   => tasks'[t].ret # <<"handler not found">>
             /\ (/\ tasks'[t].op = "addListener"
                 /\ tasks[t].pc # "done"
                 /\ tasks'[t].pc = "done")
                   => \E id \in 1..MaxListeners :
                         /\ id = tasks'[t].ret
                         /\ HeldBySomeSession(id)'
       /\ EveryOwedInvoked("late")]_vars

\* a callback went past a matching listener without invoking its handler,
\* which was not registered then, and is suspended at a later listener; the
\* handler has been registered since and the callback of another event has
\* invoked it for the same listener
C21_Witness ==
    \E c \in Conns, e1 \in 1..Len(events), e2 \in 1..Len(events) :
        /\ <<c, e1>> \in DOMAIN dispatch
        /\ dispatch[<<c, e1>>].pc = "handler"
        /\ \E i \in 1..Len(clientInfos[dispatch[<<c, e1>>].info].listeners) :
              LET L == clientInfos[dispatch[<<c, e1>>].info].listeners[i]
              IN /\ C21_OwesLate(c, e1, L)
                 /\ L.id < dispatch[<<c, e1>>].pos
                 /\ invoked[<<e1, L.id>>] = 0
                 /\ invoked[<<e2, L.id>>] = 1

\* ------------------------------------------------------------- C22
\* this step tears down the connection of the session that holds listener id
C22_TornDownNow(id) ==
    LET c == clients[Owner(id)].client
    IN conn[c].state # "destroyed" /\ conn'[c].state = "destroyed"

\* no session holds listener id: getListeners() and getListeners(token) do
\* not return it, and removeListener(id) finds no owner
C22_Gone(id) ==
    /\ ~HeldBySomeSession(id)
    /\ Owner(id) = 0
    /\ ~ListedUnfiltered(id)
    /\ \A token \in Tokens : ~ListedFor(token, id)

\* C22: when the idle sweep or destroyAll destroys a session, no listener it
\* held is held by any session afterwards; a listener that left the pool
\* never comes back; what getListeners returns has none of them, and
\* removeListener returns false for each.
C22_ListenersGoWithSession ==
    [][\A id \in 1..MaxListeners :
          /\ (HeldBySomeSession(id) /\ C22_TornDownNow(id)) => C22_Gone(id)'
          /\ (id <= nextListener /\ C22_Gone(id)) =>
                /\ C22_Gone(id)'
                /\ last'.op = "getListeners" => id \notin InfoIds(last'.ret)
                /\ (last'.op = "removeListener" /\ last'.arg = id)
                      => ~last'.ret]_vars

\* removeListener has returned false for the id of a listener that was
\* created: in this specification it left the pool with its session, which
\* the sweep or destroyAll destroyed
C22_Witness ==
    /\ last.op = "removeListener"
    /\ ~last.ret
    /\ last.arg <= nextListener
    /\ \E c \in Conns : conn[c].state = "destroyed"

\* ------------------------------------------------------------- C23
\* C23: when destroyAll() returns the pool has no entry and the client of
\* every entry the pool had when it was called is destroyed, be there none,
\* one or several.
C23_DestroyAllEmptiesPool ==
    [][last'.op = "destroyAll" =>
          /\ clients' = <<>>
          /\ last'.ret = {clients[i].client : i \in 1..Len(clients)}
          /\ \A i \in 1..Len(clients) :
                conn'[clients[i].client].state = "destroyed"
          /\ \A token \in Tokens : ~Has(clients, token)']_vars

\* destroyAll has just returned, called with the sessions of two credentials
\* in the pool
C23_Witness ==
    /\ last.op = "destroyAll"
    /\ Cardinality(last.ret) = 2
    /\ clients = <<>>
    /\ \A c \in last.ret : conn[c].state = "destroyed"
    /\ {conn[c].token : c \in last.ret} = Tokens

\* ------------------------------------------------------------- C24
\* the attempts of the executor of a resolver called on its own that have
\* failed: of findGuild, or of findChannel (whose attempts await a findGuild
\* with an executor of its own)
C24_Failures(task) == IF task.op = "findGuild" THEN task.g ELSE task.ch

\* task t runs a resolver called on its own
C24_Running(t) ==
    /\ tasks[t].op \in {"findGuild", "findChannel"}
    /\ tasks[t].pc \notin {"done", "failed"}

\* C24: when an attempt of the operation fails and attempts remain, onRetry
\* is invoked and another attempt follows, and onRetry is invoked at no other
\* moment; when an attempt succeeds after k failed ones, k < maxRetries, the
\* executor returns what that attempt returned, the operation having been
\* invoked k + 1 times and onRetry k times.
C24_SucceedsAfterFailures ==
    [][\A t \in Tasks :
          C24_Running(t) =>
            /\ C24_Failures(tasks[t]) < maxRetries
            /\ (last'.op = tasks[t].op /\ last'.ret.onRetry) =>
                  /\ ~last'.ret.result.ok
                  /\ C24_Failures(tasks'[t]) = C24_Failures(tasks[t]) + 1
                  /\ tasks'[t].pc \notin {"done", "failed"}
            /\ (/\ C24_Failures(tasks'[t]) = C24_Failures(tasks[t]) + 1
                /\ tasks'[t].pc \notin {"done", "failed"}) =>
                  /\ last'.op = tasks[t].op
                  /\ last'.ret.onRetry
            /\ tasks'[t].pc = "done" =>
                  /\ C24_Failures(tasks'[t]) = C24_Failures(tasks[t])
                  /\ last'.op = tasks[t].op
                  /\ last'.ret.result.ok
                  /\ ~last'.ret.onRetry
                  /\ tasks'[t].ret = last'.ret.result.id]_vars

\* findGuild has returned a guild from its third attempt, after two attempts
\* that threw: maxRetries = 3, two failures, then success
C24_Witness ==
    \E t \in Tasks :
        /\ tasks[t].op = "findGuild"
        /\ tasks[t].pc = "done"
        /\ tasks[t].g = 2
        /\ maxRetries = 3
        /\ last.op = "findGuild"
        /\ last.ret.result.ok
        /\ tasks[t].ret = last.ret.result.id

\* ------------------------------------------------------------- C25
\* C25: the executor fails only from an attempt that failed when
\* maxRetries - 1 attempts had failed before it, and then with what that
\* attempt threw, onRetry not being invoked; while it runs fewer than
\* maxRetries attempts have failed, so the operation is invoked maxRetries
\* times at most.
C25_FailsAfterMaxAttempts ==
    [][\A t \in Tasks :
          C24_Running(t) =>
            /\ C24_Failures(tasks[t]) < maxRetries
            /\ (/\ last'.op = tasks[t].op
                /\ ~last'.ret.result.ok
                /\ C24_Failures(tasks[t]) = maxRetries - 1)
                  => tasks'[t].pc = "failed"
            /\ tasks'[t].pc = "failed" =>
                  /\ C24_Failures(tasks[t]) = maxRetries - 1
                  /\ C24_Failures(tasks'[t]) = maxRetries
                  /\ last'.op = tasks[t].op
                  /\ ~last'.ret.result.ok
                  /\ ~last'.ret.onRetry
                  /\ tasks'[t].ret = last'.ret.result.id]_vars

\* findChannel has thrown "channel not found" after maxRetries attempts
\* that all failed
C25_Witness ==
    \E t \in Tasks :
        /\ tasks[t].op = "findChannel"
        /\ tasks[t].pc = "failed"
        /\ tasks[t].ch = maxRetries
        /\ last.op = "findChannel"
        /\ ~last.ret.result.ok
        /\ tasks[t].ret = last.ret.result.id
        /\ tasks[t].ret = <<"channel not found">>

\* ------------------------------------------------------------- C26
\* the handlers of the map m registered under id
C26_Under(m, id) == {m[i] : i \in {j \in 1..Len(m) : m[j].id = id}}

\* the map m holds at most one handler under each id
C26_OnePerId(m) ==
    \A i \in 1..Len(m), j \in 1..Len(m) : m[i].id = m[j].id => i = j

\* C26: after register(handler) the registry holds under handler.id that
\* handler and no other, whatever it held there before, and what it holds
\* under every other id is as before; no other operation changes it;
\* getHandler(id) returns the handler held under id, and undefined when none
\* is; listHandlers() returns the handlers held, one for each id.
C26_LastWriteWins ==
    [][/\ C26_OnePerId(handlers) /\ C26_OnePerId(handlers')
       /\ IF last'.op = "register"
          THEN /\ C26_Under(handlers', last'.arg.id) = {last'.arg}
               /\ \A id \in RegistryIds \cup RegisteredAtStartup :
                     id # last'.arg.id =>
                        C26_Under(handlers', id) = C26_Under(handlers, id)
          ELSE handlers' = handlers
       /\ last'.op = "getHandler" =>
             /\ C26_Under(handlers, last'.arg) = {} => last'.ret = NoHandler
             /\ C26_Under(handlers, last'.arg) # {} =>
                   C26_Under(handlers, last'.arg) = {last'.ret}
       /\ last'.op = "listHandlers" =>
             /\ C26_OnePerId(last'.ret)
             /\ \A id \in RegistryIds \cup RegisteredAtStartup :
                   C26_Under(last'.ret, id) = C26_Under(handlers, id)]_vars

\* getHandler("ack") has returned the second handler registered under "ack"
\* after startup, not ackHandler, and the registry holds three handlers
C26_Witness ==
    /\ last.op = "getHandler"
    /\ last.arg = "ack"
    /\ last.ret = Handler("ack", "v2")
    /\ Len(handlers) = 3
    /\ getHandler("late") = Handler("late", "v1")
    /\ getHandler("x") = NoHandler

\* ------------------------------------------------------------- C27
\* the ListenerInfo of every listener the sessions of the tokens in ts hold
C27_InfosOf(ts) ==
    UNION {{formatListenerInfo(clientInfos[clients[i].client].listeners[j]) :
              j \in 1..Len(clientInfos[clients[i].client].listeners)} :
           i \in {k \in 1..Len(clients) : clients[k].token \in ts}}

\* the sequence holds every element of the set exactly once
C27_ExactlyOnce(infos, set) ==
    /\ {infos[i] : i \in 1..Len(infos)} = set
    /\ Len(infos) = Cardinality(set)
    /\ \A i \in 1..Len(infos), j \in 1..Len(infos) :
          infos[i].id = infos[j].id => i = j

\* C27: getListeners(token) returns the ListenerInfo of every listener of
\* the session of token, each once, and nothing else, so nothing when token
\* has no session; getListeners() returns the ListenerInfo of every listener
\* of every session of the pool, each once.
C27_FilteredAndUnfiltered ==
    [][last'.op = "getListeners" =>
          IF last'.arg # ""
          THEN /\ C27_ExactlyOnce(last'.ret, C27_InfosOf({last'.arg}))
               /\ ~Has(clients, last'.arg) => last'.ret = <<>>
          ELSE C27_ExactlyOnce(last'.ret, C27_InfosOf(Tokens))]_vars

\* the pool holds the sessions of two credentials with a listener each, and
\* getListeners("A") has returned one ListenerInfo, that of the listener of
\* the session of "A"
C27_Witness ==
    /\ last.op = "getListeners"
    /\ last.arg = "A"
    /\ Len(last.ret) = 1
    /\ Len(clients) = 2
    /\ \A i \in 1..2 : Len(clientInfos[clients[i].client].listeners) = 1
    /\ last.ret[1].id \in ListenerIds(clientInfos[Get(clients, "A")])

\* ------------------------------------------------------------- C28
\* the messages of the failures the tools of the model end in: no
\* credential, a rejected login, a failed resolution, a handler that is not
\* registered, a rejected remote call
C28_Failures ==
    {<<"no token">>, <<"login">>, <<"server not found">>,
     <<"multiple servers">>, <<"multiple servers found">>,
     <<"not a text channel or not found">>, <<"channel not found">>,
     <<"multiple channels found">>, <<"handler not found">>, <<"remote">>}

C29_LoginFailed(t) == tasks[t].pc = "failed" /\ tasks[t].ret = <<"login">>

C30_NoInterleaving ==
    \A c \in Conns, e1 \in 1..Len(events), e2 \in 1..Len(events) :
        (/\ e1 < e2
         /\ c \in events[e1].to
         /\ <<c, e2>> \in DOMAIN dispatch) =>
            /\ <<c, e1>> \in DOMAIN dispatch
            /\ dispatch[<<c, e1>>].pc = "done"

\* ------------------------------------------------------------- C31
\* the listeners of ClientInfo info that come after the listener with id pos
\* and to which a handler invocation is owed for event e
C31_OwedAfter(c, e, info, pos) ==
    {i \in 1..Len(clientInfos[info].listeners) :
        /\ clientInfos[info].listeners[i].id > pos
        /\ C4_OwesUnlessBot(c, e, clientInfos[info].listeners[i])}

\* C31: when the callback of a message of a user starts, and when it resumes
\* after a handler has resolved or rejected, the handler of the next
\* listener that matches and whose handler is registered is invoked,
\* whatever listeners with an unregistered handler stand before it; the
\* callback returns only when no such listener is left, so a rejection ends
\* neither the loop nor the callback.
C31_NoShortCircuit ==
    [][\A c \in Conns, e \in 1..Len(events) :
          (/\ Stepped(c, e)
           /\ SteppedInfo(c, e) # 0
           /\ events[e].message.author = "user") =>
             LET info == SteppedInfo(c, e)
                 pos == IF <<c, e>> \in DOMAIN dispatch
                        THEN dispatch[<<c, e>>].pos ELSE 0
                 owed == C31_OwedAfter(c, e, info, pos)
             IN IF owed = {}
                THEN /\ dispatch'[<<c, e>>].pc = "done"
                     /\ invoked' = invoked
                ELSE LET i == CHOOSE i \in owed : \A j \in owed : i <= j
                         L == clientInfos[info].listeners[i]
                     IN /\ dispatch'[<<c, e>>].pc = "handler"
                        /\ dispatch'[<<c, e>>].pos = L.id
                        /\ invoked' =
                             [invoked EXCEPT ![<<e, L.id>>] = @ + 1]]_vars

\* the handler of the first listener has rejected, and the callback has gone
\* on: it awaits the handler of the second listener, invoked for the same
\* message
C31_Witness ==
    /\ last.op = "handlerSettled"
    /\ ~last.ret
    /\ dispatch[last.arg].pc = "handler"
    /\ dispatch[last.arg].pos = 2
    /\ invoked[<<last.arg[2], 1>>] = 1
    /\ invoked[<<last.arg[2], 2>>] = 1

\* ------------------------------------------------------------- C32
\* C32: no connection is torn down more than once, whatever sweeps and
\* destroyAll calls follow one another; a sweep or a destroyAll that finds a
\* connection already destroyed does not touch it, and a destroyAll on a pool
\* whose sessions are all destroyed changes nothing.
C32_TeardownAtMostOnce ==
    [][\A c \in Conns :
          /\ conn'[c].destroys <= 1
          /\ (/\ last'.op \in {"cleanup", "destroyAll"}
              /\ conn[c].state = "destroyed") =>
                /\ c \notin last'.ret
                /\ conn'[c] = conn[c]]_vars

\* destroyAll has run again after every session had been destroyed: it found
\* nothing to destroy, and the connections stay torn down once
C32_Witness ==
    /\ last.op = "destroyAll"
    /\ last.ret = {}
    /\ clients = <<>>
    /\ \E c \in Conns : conn[c].state = "destroyed" /\ conn[c].destroys = 1
    /\ \A c \in Conns : conn[c].state \in {"none", "destroyed"}

\* ------------------------------------------------------------- C33
\* the lookup by id of an attempt has not yielded an acceptable channel: the
\* fetch threw, or it answered with a channel that is not a text channel of
\* the resolved server
C33_NotAcceptable(t) ==
    \/ ~last.arg
    \/ \A ch \in ChannelsOf(tasks[t].token) :
          ch.id = tasks[t].args.channel => ~(ch.text /\ ch.guild = last.ret.guild)

\* C33: an attempt of findChannel whose lookup by id has not yielded an
\* acceptable channel goes on to the name match: when exactly one text
\* channel of the resolved server has the identifier as its name the attempt
\* returns it, and when it fails it fails with the outcome of the name match
\* (not found, or several found).
C33_FallsBackToName ==
    \A t \in Tasks :
        (ChannelAttempted(t) /\ C33_NotAcceptable(t)) =>
            LET named == NamedChannels(tasks[t].token, last.ret.guild,
                                       tasks[t].args.channel)
                result == last.ret.result
            IN /\ Cardinality(named) = 1 =>
                     result.ok /\ \E ch \in named : result.id = ch.id
               /\ ~result.ok =>
                     result.id \in {<<"channel not found">>,
                                    <<"multiple channels found">>}

\* ------------------------------------------------------------- C34
\* a step of a messageCreate callback leaves the pool and the lastUsed of
\* every pooled session as they are
C34_DispatchKeepsLastUsed ==
    (\E c \in Conns, e \in 1..MaxEvents : Stepped(c, e)) =>
        /\ clients' = clients
        /\ \A c \in Values(clients) :
              clientInfos'[c].lastUsed = clientInfos[c].lastUsed

\* a sweep evicts every session whose lastUsed is older than the idle
\* threshold, whatever messages its listeners have matched since
C34_SweepEvictsIdle ==
    last'.op = "cleanup" =>
        \A c \in Values(clients) :
            now - clientInfos[c].lastUsed > cleanupInterval =>
                /\ c \notin Values(clients')
                /\ conn'[c].state = "destroyed"

\* no handler is invoked for a listener of a session whose connection has
\* been torn down
C34_EvictedNeverFires ==
    \A c \in Conns, e \in 1..MaxEvents :
        (Stepped(c, e) /\ dispatch'[<<c, e>>].pc = "handler") =>
            conn[dispatch'[<<c, e>>].info].state # "destroyed"

\* C34: the steps of a messageCreate callback change neither the pool nor
\* any lastUsed; the first sweep after a session's lastUsed has become older
\* than the idle threshold evicts it, whatever messages its listeners have
\* matched meanwhile; and no handler is invoked for a listener of a session
\* once it has been evicted.
C34_IdleDespiteMessages ==
    [][/\ C34_DispatchKeepsLastUsed
       /\ C34_SweepEvictsIdle
       /\ C34_EvictedNeverFires]_vars

\* ------------------------------------------------------------- C35
\* C35: every step in which a messageCreate callback invokes a handler, when
\* it starts and when it resumes after an earlier handler has settled, is a
\* step of a session that is in the pool.
C35_NoInvocationAfterRemoval ==
    [][\A c \in Conns, e \in 1..MaxEvents :
          (Stepped(c, e) /\ dispatch'[<<c, e>>].pc = "handler") =>
              dispatch'[<<c, e>>].info \in Values(clients)]_vars

\* ------------------------------------------------------------- C36
\* some ClientInfo, pooled or still iterated by a callback, stores a listener
\* with this id
C36_Stored(id) == \E c \in Conns : id \in ListenerIds(clientInfos[c])

\* C36: a removeListener(id) that returns true leaves listener id stored
\* nowhere, an id that is stored nowhere is never stored again (a new
\* listener gets a fresh id), and a step that invokes the handler of
\* listener id, when a callback starts or when it resumes a loop in progress,
\* finds id stored in the ClientInfo it iterates: so once removeListener(id)
\* has returned true no invocation of the handler of listener id starts.
C36_RemovedNeverInvoked ==
    [][\A id \in 1..MaxListeners :
          /\ RemovedNow(id) => ~C36_Stored(id)'
          /\ (~C36_Stored(id) /\ C36_Stored(id)') => id > nextListener
          /\ \A c \in Conns, e \in 1..MaxEvents :
                (/\ Stepped(c, e)
                 /\ dispatch'[<<c, e>>].pc = "handler"
                 /\ dispatch'[<<c, e>>].pos = id)
                   => id \in ListenerIds(clientInfos[SteppedInfo(c, e)])
          /\ \A e \in 1..MaxEvents :
                invoked'[<<e, id>>] > invoked[<<e, id>>] => C36_Stored(id)]_vars

\* removeListener has returned true for the second listener while the
\* callback of a message is suspended in the handler of the first and has
\* not reached the second
C36_Witness ==
    /\ last.op = "removeListener"
    /\ last.ret
    /\ last.arg = 2
    /\ \E c \in Conns, e \in 1..MaxEvents :
          /\ <<c, e>> \in DOMAIN dispatch
          /\ dispatch[<<c, e>>].pc = "handler"
          /\ dispatch[<<c, e>>].pos = 1
          /\ invoked[<<e, 2>>] = 0
          /\ ListenerIds(clientInfos[dispatch[<<c, e>>].info]) = {1}

\* ------------------------------------------------------------- C37
\* the send_message or read_messages call of task t has obtained its session
\* from getClient and has not returned: it awaits a resolver attempt, a
\* backoff delay or its remote call
C37_InProgress(t) ==
    /\ tasks[t].op \in {"send_message", "read_messages"}
    /\ tasks[t].pc \in {"findChannelGuild", "findChannelFetch", "remote"}

\* C37: a sweep destroys the client of no session that a send_message or
\* read_messages call in progress has obtained from getClient.
C37_SweepSparesBusySessions ==
    [][last'.op = "cleanup" =>
          \A t \in Tasks :
              C37_InProgress(t) => tasks[t].client \notin last'.ret]_vars

\* ------------------------------------------------------------- C38
\* C38: when a findChannel call is about to make a lookup of the server, the
\* lookups it has made so far (one at least in each of its attempts that
\* failed, and those that failed in the attempt in progress) and this one
\* are maxRetries at most.
C38_GuildLookupsBounded ==
    \A t \in Tasks :
        (tasks[t].op = "findChannel" /\ tasks[t].pc = "findChannelGuild") =>
            tasks[t].ch + tasks[t].g + 1 <= maxRetries

\* ------------------------------------------------------------- C39
\* the listeners of a map other than the one with this id, in their order
C39_Others(ls, id) == LET Other(l) == l.id # id IN SelectSeq(ls, Other)

\* C39: a removeListener(id) step leaves the pool, every connection, every
\* lastUsed and everything else as it was, and in every session the
\* listeners other than id as they were, in their order; when it returns
\* true, id is what its owner has lost; when it returns false no listeners
\* map has changed at all.
C39_RemoveChangesOnlyListener ==
    [][\A id \in 1..MaxListeners :
          (last'.op = "removeListener" /\ last'.arg = id) =>
              /\ clients' = clients
              /\ conn' = conn
              /\ <<cleanupInterval, now, handlers, tasks, nextListener,
                   events, dispatch, invoked>>'
                   = <<cleanupInterval, now, handlers, tasks, nextListener,
                       events, dispatch, invoked>>
              /\ \A c \in Conns :
                    /\ clientInfos'[c].lastUsed = clientInfos[c].lastUsed
                    /\ clientInfos'[c].listeners
                         = C39_Others(clientInfos[c].listeners, id)
              /\ ~last'.ret => clientInfos' = clientInfos
              /\ last'.ret => \E c \in Values(clients) :
                                 id \in ListenerIds(clientInfos[c])]_vars

\* removeListener has returned true for a listener of one of two pooled
\* sessions, some time after that session was last used; the other session
\* still holds its listener
C39_Witness ==
    /\ last.op = "removeListener"
    /\ last.ret
    /\ Len(clients) = 2
    /\ \E c \in Values(clients), d \in Values(clients) :
          /\ c # d
          /\ clientInfos[c].listeners = <<>>
          /\ clientInfos[c].lastUsed < now
          /\ ListenerIds(clientInfos[d]) # {}
          /\ last.arg \notin ListenerIds(clientInfos[d])

====
